---------------------------- MODULE Spec2Model ----------------------------
(***************************************************************************)
(* DoR Gatekeeper: readiness scoring and the issue lifecycle.              *)
(*                                                                         *)
(* Strings are sequences of one-character strings.  Numbers with a         *)
(* fractional part are kept exact: a weight w is held as 10*w, a threshold *)
(* t as 10*t, and a score as a reduced fraction [num, den].  The rounding  *)
(* of IEEE doubles is not modelled.                                        *)
(***************************************************************************)
EXTENDS Integers, Sequences, FiniteSets, TLC

(***************************************************************************)
(* Bounds of the model.                                                    *)
(***************************************************************************)
\* longest rule list drawn for the scoring function
MaxRules == 2
\* most answered questions handed to scoreIssue by the scoring probe
MaxAnswered == 3

(***************************************************************************)
(* Strings.                                                                *)
(***************************************************************************)
\* String.prototype.toLowerCase, one character
LowerChar(c) ==
    CASE c = "A" -> "a"
      [] c = "B" -> "b"
      [] c = "I" -> "i"
      [] c = "S" -> "s"
      [] c = "P" -> "p"
      [] c = "T" -> "t"
      [] c = "X" -> "x"
      [] OTHER -> c

\* String.prototype.toLowerCase
ToLowerCase(s) == [k \in 1..Len(s) |-> LowerChar(s[k])]

\* s.startsWith(t) at offset k (0-based)
HasAt(s, t, k) ==
    /\ k + Len(t) <= Len(s)
    /\ \A j \in 1..Len(t) : s[k + j] = t[j]

\* String.prototype.includes
Includes(s, t) == \E k \in 0..Len(s) : HasAt(s, t, k)

\* whitespace as String.prototype.trim sees it
IsSpace(c) == c = " "

RECURSIVE TrimStart(_)
TrimStart(s) ==
    IF s # <<>> /\ IsSpace(Head(s)) THEN TrimStart(Tail(s)) ELSE s

RECURSIVE TrimEnd(_)
TrimEnd(s) ==
    IF s # <<>> /\ IsSpace(s[Len(s)]) THEN TrimEnd(SubSeq(s, 1, Len(s) - 1)) ELSE s

\* String.prototype.trim
Trim(s) == TrimEnd(TrimStart(s))

(***************************************************************************)
(* JavaScript values of an issue's fields.                                 *)
(***************************************************************************)
Undefined == [t |-> "undefined", s |-> <<>>, items |-> <<>>]
Null == [t |-> "null", s |-> <<>>, items |-> <<>>]
Str(s) == [t |-> "string", s |-> s, items |-> <<>>]
\* a number, held by its decimal digits
Num(digits) == [t |-> "number", s |-> digits, items |-> <<>>]
\* an array of strings
Arr(items) == [t |-> "array", s |-> <<>>, items |-> items]
\* a plain object such as {name: 'High'}
Obj == [t |-> "object", s |-> <<>>, items |-> <<>>]

\* ToBoolean
Truthy(v) ==
    CASE v.t = "undefined" -> FALSE
      [] v.t = "null" -> FALSE
      [] v.t = "string" -> v.s # <<>>
      [] v.t = "number" -> v.s # <<"0">>
      [] OTHER -> TRUE

RECURSIVE JoinComma(_)
\* Array.prototype.join(',')
JoinComma(items) ==
    IF items = <<>> THEN <<>>
    ELSE IF Len(items) = 1 THEN items[1]
    ELSE items[1] \o <<",">> \o JoinComma(Tail(items))

\* String(v)
ToStr(v) ==
    CASE v.t = "undefined" -> <<"u", "n", "d", "e", "f", "i", "n", "e", "d">>
      [] v.t = "null" -> <<"n", "u", "l", "l">>
      [] v.t = "string" -> v.s
      [] v.t = "number" -> v.s
      [] v.t = "array" -> JoinComma(v.items)
      [] OTHER -> <<"[", "o", "b", "j", "e", "c", "t", " ", "O", "b", "j", "e", "c", "t", "]">>

\* issue[field]: a field the issue does not carry reads undefined
GetField(issue, field) ==
    IF field \in DOMAIN issue THEN issue[field] ELSE Undefined

\* issue[rule.targetField] || ''
FieldValue(issue, field) ==
    IF Truthy(GetField(issue, field)) THEN GetField(issue, field) ELSE Str(<<>>)

(***************************************************************************)
(* Regular expressions: the patterns are literal characters, capturing     *)
(* groups "(...)", non-capturing groups "(?:...)" and the inline flag      *)
(* "(?i)" of other dialects, which ECMAScript rejects.                     *)
(***************************************************************************)
RECURSIVE CompileScan(_, _, _)
\* the parser of new RegExp(p): k is the next position, depth the open groups
CompileScan(p, k, depth) ==
    IF k > Len(p) THEN depth = 0
    ELSE IF p[k] = "(" THEN
        IF k < Len(p) /\ p[k + 1] = "?" THEN
            \* "(?" must go on as "(?:"; anything else is an invalid group
            IF k + 1 < Len(p) /\ p[k + 2] = ":" THEN CompileScan(p, k + 3, depth + 1)
            ELSE FALSE
        ELSE CompileScan(p, k + 1, depth + 1)
    ELSE IF p[k] = ")" THEN
        IF depth = 0 THEN FALSE ELSE CompileScan(p, k + 1, depth - 1)
    ELSE IF p[k] = "?" THEN FALSE
    ELSE CompileScan(p, k + 1, depth)

\* new RegExp(p, 'i') returns (TRUE) or throws a SyntaxError (FALSE)
RegExpCompiles(p) == CompileScan(p, 1, 0)

RECURSIVE RegExpLiteral(_)
\* the characters a compiled pattern of this shape has to find, in order
RegExpLiteral(p) ==
    IF p = <<>> THEN <<>>
    ELSE IF HasAt(p, <<"(", "?", ":">>, 0) THEN RegExpLiteral(SubSeq(p, 4, Len(p)))
    ELSE IF Head(p) \in {"(", ")"} THEN RegExpLiteral(Tail(p))
    ELSE <<Head(p)>> \o RegExpLiteral(Tail(p))

\* new RegExp(p, 'i').test(s), for a pattern that compiles
RegExpTest(p, s) == Includes(ToLowerCase(s), ToLowerCase(RegExpLiteral(p)))

RECURSIVE StripInlineFlag(_)
\* pattern.replace(/\(\?i\)/g, '')
StripInlineFlag(p) ==
    IF p = <<>> THEN <<>>
    ELSE IF HasAt(p, <<"(", "?", "i", ")">>, 0) THEN StripInlineFlag(SubSeq(p, 5, Len(p)))
    ELSE <<Head(p)>> \o StripInlineFlag(Tail(p))

(***************************************************************************)
(* Exact fractions.                                                        *)
(***************************************************************************)
RECURSIVE Gcd(_, _)
Gcd(a, b) == IF b = 0 THEN a ELSE Gcd(b, a % b)

\* n/d in lowest terms, d > 0
Frac(n, d) == LET g == Gcd(n, d) IN [num |-> n \div g, den |-> d \div g]

FracLeq(x, y) == x.num * y.den <= y.num * x.den
FracGeq(x, y) == FracLeq(y, x)
FracEq(x, y) == x.num * y.den = y.num * x.den
FracAdd(x, y) == Frac(x.num * y.den + y.num * x.den, x.den * y.den)
FracSub(x, y) == Frac(x.num * y.den - y.num * x.den, x.den * y.den)
FracMul(x, y) == Frac(x.num * y.num, x.den * y.den)
FracMin(x, y) == IF FracLeq(x, y) THEN x ELSE y
Zero == Frac(0, 1)
Five == Frac(5, 1)


(***************************************************************************)
(* Rules.  A rule is [name, enabled, severity, weight, detectionMethod,    *)
(* targetField, expectedPattern, minLength]; weight is 10 times the        *)
(* stored weight and minLength 0 stands for null (both are falsy).         *)
(***************************************************************************)
Rule(name, enabled, severity, weight, targetField, expectedPattern, minLength) ==
    [name |-> name, enabled |-> enabled, severity |-> severity, weight |-> weight,
     detectionMethod |-> "field_presence", targetField |-> targetField,
     expectedPattern |-> expectedPattern, minLength |-> minLength]

\* 'Test Strategy Defined', 'Assignee Set' and 'Priority Set'
NameTS == <<"T", "S">>
NameAS == <<"A", "S">>
NamePS == <<"P", "S">>
NameAC == <<"A", "C">>
NameTD == <<"T", "D">>

\* '(?i)(test strategy|testing approach|QA notes)': the inline flag, then a group to find
PatternLegacy == <<"(", "?", "i", ")", "(", "a", ")">>
\* '(test strategy)'
PatternClean == <<"(", "a", ")">>
\* a pattern with a group that is never closed
PatternMalformed == <<"(", "a">>

\* the rules seeded into a new rule set; the description rule asks for a length
DEFAULT_RULES ==
    << Rule(NameTS, TRUE, "warn", 8, "description", PatternLegacy, 2),
       Rule(NameAS, TRUE, "info", 5, "assignee", <<>>, 0) >>

\* whether the pass test of calculateReadinessScore throws on this rule
RuleThrows(rule) ==
    /\ rule.detectionMethod = "field_presence"
    /\ rule.expectedPattern # <<>>
    /\ ~RegExpCompiles(rule.expectedPattern)

\* the pass test of calculateReadinessScore, for a rule it does not throw on
RulePasses(issue, rule) ==
    LET fieldValue == FieldValue(issue, rule.targetField)
        matched ==
            IF rule.expectedPattern # <<>>
            THEN RegExpTest(rule.expectedPattern, ToStr(fieldValue))
            ELSE fieldValue # Str(<<>>) /\ fieldValue.t # "null" /\ fieldValue.t # "undefined"
    IN  IF rule.detectionMethod # "field_presence" THEN FALSE
        ELSE IF matched /\ rule.minLength # 0
             THEN Len(ToStr(fieldValue)) >= rule.minLength
             ELSE matched

RECURSIVE TotalWeight(_)
\* totalWeight after the loop
TotalWeight(rules) ==
    IF rules = <<>> THEN 0
    ELSE (IF Head(rules).enabled THEN Head(rules).weight ELSE 0) + TotalWeight(Tail(rules))

RECURSIVE EarnedScore(_, _)
\* earnedScore after the loop
EarnedScore(issue, rules) ==
    IF rules = <<>> THEN 0
    ELSE (IF Head(rules).enabled /\ RulePasses(issue, Head(rules)) THEN Head(rules).weight ELSE 0)
         + EarnedScore(issue, Tail(rules))

\* the result of a call: a value, or an exception
Returned(v) == [threw |-> FALSE, value |-> v]
Thrown == [threw |-> TRUE, value |-> Zero]

\* calculateReadinessScore(issue, rules)
calculateReadinessScore(issue, rules) ==
    IF \E k \in 1..Len(rules) : rules[k].enabled /\ RuleThrows(rules[k])
    THEN Thrown
    ELSE IF TotalWeight(rules) > 0
         THEN Returned(Frac(5 * EarnedScore(issue, rules), TotalWeight(rules)))
         ELSE Returned(Zero)

(***************************************************************************)
(* scoreIssue: the score, boosted by the answered questions, and the       *)
(* missing items.                                                          *)
(***************************************************************************)
\* 'Address this requirement.' unless the rule name has a suggested fix
SUGGESTED_FIXES(name) ==
    CASE name = NameTS -> "Add a Test Strategy section"
      [] name = NameAS -> "Assign a team member"
      [] name = NamePS -> "Set the priority level"
      [] OTHER -> "Address this requirement."

\* answeredQuestions.some(q => q.toLowerCase().includes(rule.name.toLowerCase()))
RuleAnswered(rule, answeredQuestions) ==
    \E k \in 1..Len(answeredQuestions) :
        Includes(ToLowerCase(answeredQuestions[k]), ToLowerCase(rule.name))

\* whether the filter of scoreIssue throws on this rule: it compiles the stripped pattern
FilterThrows(rule, answeredQuestions) ==
    /\ rule.enabled
    /\ ~RuleAnswered(rule, answeredQuestions)
    /\ rule.expectedPattern # <<>>
    /\ ~RegExpCompiles(StripInlineFlag(rule.expectedPattern))

\* the pass test inside the filter of scoreIssue
FilterPasses(issue, rule) ==
    LET fieldValue == FieldValue(issue, rule.targetField)
        matched ==
            IF rule.expectedPattern # <<>>
            THEN RegExpTest(StripInlineFlag(rule.expectedPattern), ToStr(fieldValue))
            ELSE fieldValue # Str(<<>>) /\ fieldValue.t # "null"
    IN  IF matched /\ rule.minLength # 0
        THEN Len(ToStr(fieldValue)) >= rule.minLength
        ELSE matched

\* a callback that compares the question and the rule name as they are written
IsMissingCaseSensitive(issue, rule, answeredQuestions) ==
    /\ rule.enabled
    /\ ~(\E k \in 1..Len(answeredQuestions) : Includes(answeredQuestions[k], rule.name))
    /\ ~FilterPasses(issue, rule)

\* the callback of rules.filter
IsMissing(issue, rule, answeredQuestions) ==
    /\ rule.enabled
    /\ ~RuleAnswered(rule, answeredQuestions)
    /\ ~FilterPasses(issue, rule)

RECURSIVE MissingItems(_, _, _)
\* rules.filter(...).map(...)
MissingItems(issue, rules, answeredQuestions) ==
    IF rules = <<>> THEN <<>>
    ELSE (IF IsMissing(issue, Head(rules), answeredQuestions)
          THEN << [rule |-> Head(rules).name, severity |-> Head(rules).severity,
                   suggestion |-> SUGGESTED_FIXES(Head(rules).name)] >>
          ELSE <<>>)
         \o MissingItems(issue, Tail(rules), answeredQuestions)

\* rules.filter(r => r.enabled).length
EnabledCount(rules) == Cardinality({k \in 1..Len(rules) : rules[k].enabled})

\* Math.max(n, 1)
AtLeastOne(n) == IF n > 1 THEN n ELSE 1

\* the boost without Math.min(5, ...)
BoostedScoreUncapped(raw, answered, enabled) ==
    IF answered > 0
    THEN FracAdd(raw, FracMul(FracMul(Frac(answered, AtLeastOne(enabled)),
                                      FracSub(Five, raw)),
                              Frac(6, 10)))
    ELSE raw

\* Math.min(5, raw + answered / Math.max(enabled, 1) * (5 - raw) * 0.6)
BoostedScore(raw, answered, enabled) ==
    IF answered > 0
    THEN FracMin(Five,
                 FracAdd(raw, FracMul(FracMul(Frac(answered, AtLeastOne(enabled)),
                                              FracSub(Five, raw)),
                                      Frac(6, 10))))
    ELSE raw

\* scoreIssue(issue, rules, answeredQuestions): [threw, score, missing]
scoreIssue(issue, rules, answeredQuestions) ==
    LET readinessScore == calculateReadinessScore(issue, rules)
    IN  IF readinessScore.threw
           \/ \E k \in 1..Len(rules) : FilterThrows(rules[k], answeredQuestions)
        THEN [threw |-> TRUE, score |-> Zero, missing |-> <<>>]
        ELSE [threw |-> FALSE,
              score |-> BoostedScore(readinessScore.value, Len(answeredQuestions),
                                     EnabledCount(rules)),
              missing |-> MissingItems(issue, rules, answeredQuestions)]

(***************************************************************************)
(* The database and the last response.                                     *)
(*                                                                         *)
(* Timestamps (scannedAt, updatedAt, answeredAt, createdAt) and the        *)
(* summary of an issue are left out: no handler reads them back.  Row ids  *)
(* are the least unused positive numbers.                                  *)
(***************************************************************************)
VARIABLES
    settings,       \* the Settings singleton, or NoSettings
    ruleset,        \* the active DorRuleset with its rules, or NoRuleset
    mappings,       \* UserMapping: the jiraEmail values that have a row
    scannedIssues,  \* ScannedIssue rows, in creation order
    answers,        \* QaAnswer rows, in creation order
    auditLog,       \* the newest MaxAudit AuditLog rows, oldest first
    response,       \* what the last request answered
    probe,          \* the arguments drawn for a call of a pure function
    result          \* what that call returned

vars == <<settings, ruleset, mappings, scannedIssues, answers, auditLog, response, probe, result>>
db == <<settings, ruleset, mappings, scannedIssues, answers, auditLog>>

NoSettings == [exists |-> FALSE, mockMode |-> TRUE, slackBotToken |-> FALSE,
               slackSigningSecret |-> FALSE, slackDefaultChannel |-> FALSE,
               llmApiKey |-> FALSE]
NoRuleset == [exists |-> FALSE, thresholdReady |-> 0, thresholdClarification |-> 0,
              rules |-> <<>>]
NoProbe == [issue |-> [description |-> Undefined], rules |-> <<>>, answered |-> <<>>]
NoResult == [done |-> FALSE, threw |-> FALSE, score |-> Zero, missing |-> <<>>]

\* two of the demo issues: DEMO-102 meets no rule, DEMO-105 has an assignee only
MOCK_ISSUES ==
    << [key |-> "DEMO-102", description |-> Str(<<"b">>), assignee |-> Str(<<>>),
        priority |-> Null, labels |-> Arr(<<>>), customfield_10016 |-> Null],
       [key |-> "DEMO-105", description |-> Str(<<"b", "b">>), assignee |-> Str(<<"u">>),
        priority |-> Obj, labels |-> Arr(<< <<"s">> >>), customfield_10016 |-> Num(<<"3">>)] >>

\* the least positive number that is no id of rows
FreshId(rows) ==
    CHOOSE n \in 1..(Len(rows) + 1) :
        /\ \A k \in 1..Len(rows) : rows[k].id # n
        /\ \A m \in 1..(n - 1) : \E k \in 1..Len(rows) : rows[k].id = m

\* prisma.scannedIssue.findUnique({where: {id}})
HasIssue(id) == \E k \in 1..Len(scannedIssues) : scannedIssues[k].id = id
IssueIndex(id) == CHOOSE k \in 1..Len(scannedIssues) : scannedIssues[k].id = id
IssueById(id) == scannedIssues[IssueIndex(id)]
IssueIds == {scannedIssues[k].id : k \in 1..Len(scannedIssues)}

\* include: {answers: true}
AnswersOf(rows, issueId) == SelectSeq(rows, LAMBDA a : a.issueId = issueId)

\* a.answer && a.answer.trim() !== ''
IsAnswered(a) == a.answer # <<>> /\ Trim(a.answer) # <<>>

Ok(op, issueId) == [op |-> op, code |-> 200, issueId |-> issueId, note |-> "", rows |-> <<>>]
Err(op, code) == [op |-> op, code |-> code, issueId |-> 0, note |-> "", rows |-> <<>>]

(***************************************************************************)
(* POST /api/seed                                                          *)
(***************************************************************************)
\* thresholdReady: 4.0 and thresholdClarification: 2.5 of a seeded rule set
SeedThresholdReady == 40
SeedThresholdClarification == 25

\* the assignee of DEMO-105, who has a seeded mapping
SeedMappings == { <<"u">> }

Seed ==
    /\ settings' = IF settings.exists THEN settings
                   ELSE [exists |-> TRUE, mockMode |-> TRUE, slackBotToken |-> TRUE,
                         slackSigningSecret |-> TRUE, slackDefaultChannel |-> FALSE,
                         llmApiKey |-> TRUE]
    /\ ruleset' = [exists |-> TRUE, thresholdReady |-> SeedThresholdReady,
                   thresholdClarification |-> SeedThresholdClarification,
                   rules |-> DEFAULT_RULES]
    /\ answers' = <<>>
    /\ scannedIssues' = <<>>
    /\ mappings' = mappings \cup SeedMappings
    /\ response' = Ok("seed", 0)
    /\ UNCHANGED <<auditLog, probe, result>>

(***************************************************************************)
(* PUT /api/settings                                                       *)
(***************************************************************************)
\* the request bodies drawn: mockMode, and no slackDefaultChannel
SettingsBodies == [mockMode : BOOLEAN, slackDefaultChannel : {"absent"}]

UpdateSettings(body) ==
    /\ settings' =
         [exists |-> TRUE,
          mockMode |-> body.mockMode,
          slackBotToken |-> settings.slackBotToken,
          slackSigningSecret |-> settings.slackSigningSecret,
          slackDefaultChannel |->
              IF body.slackDefaultChannel = "absent" THEN settings.slackDefaultChannel
              ELSE body.slackDefaultChannel # "",
          llmApiKey |-> settings.llmApiKey]
    /\ response' = Ok("settings", 0)
    /\ UNCHANGED <<ruleset, mappings, scannedIssues, answers, auditLog, probe, result>>

(***************************************************************************)
(* PUT /api/rules                                                          *)
(***************************************************************************)
\* the updates of one rule drawn: ruleId is the rule's place in the rule set
RuleBodies ==
    [ruleId : {1}, field : {"enabled"}, enabled : BOOLEAN, expectedPattern : {<<>>}]
    \cup [ruleId : {1}, field : {"expectedPattern"}, enabled : {TRUE},
          expectedPattern : {PatternClean, PatternMalformed}]

UpdateRule(body) ==
    IF ~ruleset.exists \/ body.ruleId > Len(ruleset.rules)
    THEN /\ response' = Err("rule", 500)
         /\ UNCHANGED <<db, probe, result>>
    ELSE /\ ruleset' =
              [ruleset EXCEPT !.rules[body.ruleId] =
                  IF body.field = "enabled"
                  THEN [@ EXCEPT !.enabled = body.enabled]
                  ELSE [@ EXCEPT !.expectedPattern = body.expectedPattern]]
         /\ response' = Ok("rule", 0)
         /\ UNCHANGED <<settings, mappings, scannedIssues, answers, auditLog, probe, result>>

\* the threshold updates drawn, in tenths; 0 stands for a field the body omits
ThresholdBodies ==
    {[thresholdReady |-> b[1], thresholdClarification |-> b[2]] :
        b \in {<<0, 0>>, <<0, 15>>, <<0, 25>>, <<51, 0>>}}

UpdateThresholds(body) ==
    LET ready == body.thresholdReady
        clarification == body.thresholdClarification
    IN  IF ready = 0 /\ clarification = 0
        THEN /\ response' = Err("thresholds", 400)
             /\ UNCHANGED <<db, probe, result>>
        ELSE IF \/ (ready # 0 /\ (ready < 1 \/ ready > 50))
                \/ (clarification # 0 /\ (clarification < 1 \/ clarification > 50))
                \/ (ready # 0 /\ clarification # 0 /\ ready <= clarification)
        THEN /\ response' = Err("thresholds", 400)
             /\ UNCHANGED <<db, probe, result>>
        ELSE IF ~ruleset.exists
        THEN /\ response' = Err("thresholds", 500)
             /\ UNCHANGED <<db, probe, result>>
        ELSE /\ ruleset' =
                  [ruleset EXCEPT
                      !.thresholdReady = IF ready # 0 THEN ready ELSE @,
                      !.thresholdClarification = IF clarification # 0 THEN clarification ELSE @]
             /\ response' = Ok("thresholds", 0)
             /\ UNCHANGED <<settings, mappings, scannedIssues, answers, auditLog, probe, result>>

(***************************************************************************)
(* POST /api/scan                                                          *)
(***************************************************************************)
\* the status with READY given from tClarification on
StatusForOneThreshold(score, tReady, tClarification) ==
    IF FracGeq(score, Frac(tClarification, 10)) THEN "READY" ELSE "NEEDS_INFO"

\* score >= tReady ? 'READY' : score >= tClarification ? 'NEEDS_CLARIFICATION' : 'NEEDS_INFO'
StatusFor(score, tReady, tClarification) ==
    IF FracGeq(score, Frac(tReady, 10)) THEN "READY"
    ELSE IF FracGeq(score, Frac(tClarification, 10)) THEN "NEEDS_CLARIFICATION"
    ELSE "NEEDS_INFO"

\* the issues the Jira project holds in live mode
JIRA_ISSUES == MOCK_ISSUES

\* whether prisma.scannedIssue.upsert({where: {jiraKey}}) finds a row
HasKey(rows, jiraKey) == \E k \in 1..Len(rows) : rows[k].jiraKey = jiraKey

\* a create in place of the upsert
UpsertAlwaysCreates(rows, issue, score, status, missing) ==
    Append(rows,
           [id |-> FreshId(rows), jiraKey |-> issue.key,
            description |-> issue.description,
            assignee |-> FieldValue(issue, "assignee"),
            readinessScore |-> score, status |-> status, missingItems |-> missing,
            questionsGenerated |-> FALSE, slackMessageSent |-> FALSE,
            manualOverride |-> FALSE, overrideReason |-> ""])

\* prisma.scannedIssue.upsert of the full scan
Upsert(rows, issue, score, status, missing) ==
    IF HasKey(rows, issue.key)
    THEN LET k == CHOOSE k \in 1..Len(rows) : rows[k].jiraKey = issue.key
         IN  [rows EXCEPT ![k] =
                 [@ EXCEPT !.description = issue.description,
                           !.assignee = FieldValue(issue, "assignee"),
                           !.readinessScore = score,
                           !.status = status,
                           !.missingItems = missing]]
    ELSE Append(rows,
                [id |-> FreshId(rows), jiraKey |-> issue.key,
                 description |-> issue.description,
                 assignee |-> FieldValue(issue, "assignee"),
                 readinessScore |-> score, status |-> status, missingItems |-> missing,
                 questionsGenerated |-> FALSE, slackMessageSent |-> FALSE,
                 manualOverride |-> FALSE, overrideReason |-> ""])

RECURSIVE ScanLoop(_, _, _)
\* for (const issue of issues): the rows when the loop ends, and whether it threw
ScanLoop(rows, issues, rs) ==
    IF issues = <<>> THEN [rows |-> rows, threw |-> FALSE]
    ELSE LET scored == scoreIssue(Head(issues), rs.rules, <<>>)
         IN  IF scored.threw THEN [rows |-> rows, threw |-> TRUE]
             ELSE ScanLoop(Upsert(rows, Head(issues), scored.score,
                                  StatusFor(scored.score, rs.thresholdReady,
                                            rs.thresholdClarification),
                                  scored.missing),
                           Tail(issues), rs)

\* the full scan; jira is whether the Jira search answers, asked in live mode only
ScanAll(jira) ==
    IF ~settings.exists
    THEN /\ response' = Err("scanAll", 400)
         /\ UNCHANGED <<db, probe, result>>
    ELSE IF ~ruleset.exists
    THEN /\ response' = Err("scanAll", 404)
         /\ UNCHANGED <<db, probe, result>>
    ELSE IF ~settings.mockMode /\ jira = "fails"
    THEN /\ response' = Err("scanAll", 500)
         /\ UNCHANGED <<db, probe, result>>
    ELSE LET done == ScanLoop(scannedIssues,
                              IF settings.mockMode THEN MOCK_ISSUES ELSE JIRA_ISSUES,
                              ruleset)
         IN  /\ scannedIssues' = done.rows
             /\ response' = IF done.threw THEN Err("scanAll", 500) ELSE Ok("scanAll", 0)
             /\ UNCHANGED <<settings, ruleset, mappings, answers, auditLog, probe, result>>

\* MOCK_ISSUES.find(m => m.key === jiraKey), or jiraClient.getIssue(jiraKey)
HasSourceIssue(issues, jiraKey) == \E k \in 1..Len(issues) : issues[k].key = jiraKey
SourceIssue(issues, jiraKey) == issues[CHOOSE k \in 1..Len(issues) : issues[k].key = jiraKey]

\* the stored data a live rescan falls back to when Jira does not answer
StoredIssue(existingIssue) ==
    [key |-> existingIssue.jiraKey, description |-> existingIssue.description,
     assignee |-> existingIssue.assignee, priority |-> Null, labels |-> Arr(<<>>),
     customfield_10016 |-> Null]

\* existingIssue.answers.filter(a => a.answer && a.answer.trim() !== '').map(a => a.question)
AnsweredQuestions(rows) ==
    LET answered == SelectSeq(rows, IsAnswered)
    IN  [k \in 1..Len(answered) |-> answered[k].question]

\* the status of the score, whatever the override
RescanStatusUnfrozen(existingIssue, score, rs) ==
    StatusFor(score, rs.thresholdReady, rs.thresholdClarification)

\* existingIssue.manualOverride ? existingIssue.status : the status of the score
RescanStatus(existingIssue, score, rs) ==
    IF existingIssue.manualOverride THEN existingIssue.status
    ELSE StatusFor(score, rs.thresholdReady, rs.thresholdClarification)

\* what a rescan computes from the row and the answers it read
RescanResult(existingIssue, read, st, rs, jira) ==
    LET issueData ==
            IF st.mockMode THEN SourceIssue(MOCK_ISSUES, existingIssue.jiraKey)
            ELSE IF jira = "fails" \/ ~HasSourceIssue(JIRA_ISSUES, existingIssue.jiraKey)
                 THEN StoredIssue(existingIssue)
                 ELSE SourceIssue(JIRA_ISSUES, existingIssue.jiraKey)
        answeredRules == AnsweredQuestions(read)
        scored == scoreIssue(issueData, rs.rules, answeredRules)
    IN  [threw |-> scored.threw, score |-> scored.score, missing |-> scored.missing,
         status |-> RescanStatus(existingIssue, scored.score, rs)]

\* an update that also writes the column default of manualOverride
RescanDataClearsOverride(row, computed) ==
    [row EXCEPT !.readinessScore = computed.score,
                !.status = computed.status,
                !.missingItems = computed.missing,
                !.manualOverride = FALSE]

\* the data of the rescan's prisma.scannedIssue.update
RescanData(row, computed) ==
    [row EXCEPT !.readinessScore = computed.score,
                !.status = computed.status,
                !.missingItems = computed.missing]

\* the rescan of one issue
RescanOne(issueId, jira) ==
    IF ~settings.exists
    THEN /\ response' = Err("rescanOne", 400)
         /\ UNCHANGED <<db, probe, result>>
    ELSE IF ~ruleset.exists
    THEN /\ response' = Err("rescanOne", 404)
         /\ UNCHANGED <<db, probe, result>>
    ELSE IF ~HasIssue(issueId)
    THEN /\ response' = Err("rescanOne", 404)
         /\ UNCHANGED <<db, probe, result>>
    ELSE IF settings.mockMode /\ ~HasSourceIssue(MOCK_ISSUES, IssueById(issueId).jiraKey)
    THEN /\ response' = Err("rescanOne", 404)
         /\ UNCHANGED <<db, probe, result>>
    ELSE LET computed == RescanResult(IssueById(issueId), AnswersOf(answers, issueId),
                                     settings, ruleset, jira)
         IN  IF computed.threw
             THEN /\ response' = Err("rescanOne", 500)
                  /\ UNCHANGED <<db, probe, result>>
             ELSE /\ scannedIssues' =
                       [scannedIssues EXCEPT ![IssueIndex(issueId)] = RescanData(@, computed)]
                  /\ response' = Ok("rescanOne", issueId)
                  /\ UNCHANGED <<settings, ruleset, mappings, answers, auditLog, probe, result>>

\* the same rescan as the two steps other requests can come between: the reads up
\* to prisma.scannedIssue.findUnique, then the computation and the update
RescanRead(issueId) ==
    /\ probe = NoProbe
    /\ settings.exists /\ ruleset.exists /\ HasIssue(issueId)
    /\ HasSourceIssue(MOCK_ISSUES, IssueById(issueId).jiraKey)
    /\ probe' = [pc |-> "rescan", issueId |-> issueId, existingIssue |-> IssueById(issueId),
                 read |-> AnswersOf(answers, issueId), settings |-> settings,
                 ruleset |-> ruleset]
    /\ UNCHANGED <<db, response, result>>

RescanWrite ==
    /\ probe # NoProbe
    /\ LET computed == RescanResult(probe.existingIssue, probe.read, probe.settings,
                                    probe.ruleset, "answers")
       IN  IF computed.threw \/ ~HasIssue(probe.issueId)
           THEN \* scoring throws, or the update finds no row and throws
                /\ response' = Err("rescanOne", 500)
                /\ UNCHANGED db
           ELSE /\ scannedIssues' =
                     [scannedIssues EXCEPT ![IssueIndex(probe.issueId)] = RescanData(@, computed)]
                /\ response' = Ok("rescanOne", probe.issueId)
                /\ UNCHANGED <<settings, ruleset, mappings, answers, auditLog>>
    /\ probe' = NoProbe
    /\ UNCHANGED result

(***************************************************************************)
(* POST /api/questions/generate                                            *)
(***************************************************************************)
\* most rows the QaAnswer table holds in the model
MaxAnswers == 3
\* questions.slice(0, 6)
QuestionLimit == 6

\* the canned questions of a rule, or the generic one
questionMap(rule) ==
    CASE rule = NameAC -> << <<"q", "5">>, <<"q", "6">> >>
      [] rule = NameTD -> << <<"q", "7">>, <<"q", "8">> >>
      [] rule = NameTS -> << <<"q", "1">> >>
      [] rule = NameAS -> << <<"q", "3">> >>
      [] rule = NamePS -> << <<"q", "4">> >>
      [] OTHER -> << <<"d", ":", " ">> \o rule >>

RECURSIVE TemplateQuestions(_)
\* the loop over missingItems of generateMockQuestions
TemplateQuestions(missingItems) ==
    IF missingItems = <<>> THEN <<>>
    ELSE [k \in 1..Len(questionMap(Head(missingItems).rule)) |->
             [missingRule |-> Head(missingItems).rule,
              question |-> questionMap(Head(missingItems).rule)[k]]]
         \o TemplateQuestions(Tail(missingItems))

\* Array.prototype.slice(0, n)
Slice(s, n) == SubSeq(s, 1, IF Len(s) < n THEN Len(s) ELSE n)

\* the template questions, all of them
generateMockQuestionsUnlimited(missingItems) == TemplateQuestions(missingItems)

\* generateMockQuestions(issue, missingItems)
generateMockQuestions(missingItems) == Slice(TemplateQuestions(missingItems), QuestionLimit)

\* generateQuestionsViaLLM once the reply is parsed: the items whose missingRule and
\* question are strings, the first six of them; null (<<>>) when none is left
generateQuestionsViaLLM(parsed) ==
    LET valid == SelectSeq(parsed, LAMBDA q : q.missingRule.t = "string" /\ q.question.t = "string")
        kept == Slice(valid, QuestionLimit)
    IN  [k \in 1..Len(kept) |-> [missingRule |-> kept[k].missingRule.s,
                                 question |-> kept[k].question.s]]

\* what generateQuestionsViaLLM may return: null (<<>>) or up to six questions
LlmReplies ==
    { <<>>, << [missingRule |-> <<"X">>, question |-> <<"q", "9">>] >> }

\* `[${q.missingRule}] ${q.question}`
QuestionText(q) == <<"[">> \o q.missingRule \o <<"]", " ">> \o q.question

RECURSIVE CreateQuestions(_, _, _)
\* the loop of prisma.qaAnswer.create over the questions
CreateQuestions(rows, issueId, questions) ==
    IF questions = <<>> THEN rows
    ELSE CreateQuestions(
             Append(rows, [id |-> FreshId(rows), issueId |-> issueId,
                           question |-> QuestionText(Head(questions)), answer |-> <<>>]),
             issueId, Tail(questions))

\* a deleteMany({where: {issueId}})
DeleteAllOfIssue(rows, issueId) ==
    SelectSeq(rows, LAMBDA a : a.issueId # issueId)

\* prisma.qaAnswer.deleteMany({where: {issueId, answer: ''}})
DeleteUnanswered(rows, issueId) ==
    SelectSeq(rows, LAMBDA a : ~(a.issueId = issueId /\ a.answer = <<>>))

\* no early return at all
ReturnsExistingNever(issue, read, regenerate) == FALSE

\* !regenerate && issue.questionsGenerated && issue.answers.length > 0
ReturnsExisting(issue, read, regenerate) ==
    ~regenerate /\ issue.questionsGenerated /\ Len(read) > 0

\* an update that also puts the issue back to the first state
GeneratedDataResetsStatus(row) ==
    [row EXCEPT !.questionsGenerated = TRUE, !.status = "NEEDS_INFO"]

\* the data of prisma.scannedIssue.update: questionsGenerated alone
GeneratedData(row) == [row EXCEPT !.questionsGenerated = TRUE]

\* the request, by its regenerate flag
GenerateOp(regenerate) == IF regenerate THEN "regenerateQuestions" ELSE "generateQuestions"

GenerateQuestions(issueId, regenerate, llm) ==
    IF ~HasIssue(issueId)
    THEN /\ response' = Err(GenerateOp(regenerate), 404)
         /\ UNCHANGED <<db, probe, result>>
    ELSE LET issue == IssueById(issueId)
             read == AnswersOf(answers, issueId)
             kept == IF regenerate THEN DeleteUnanswered(answers, issueId) ELSE answers
             questions ==
                 IF settings.exists /\ ~settings.mockMode /\ settings.llmApiKey /\ llm # <<>>
                 THEN llm
                 ELSE generateMockQuestions(issue.missingItems)
             created == CreateQuestions(kept, issueId, questions)
         IN  IF ReturnsExisting(issue, read, regenerate)
             THEN /\ response' = [Ok(GenerateOp(regenerate), issueId) EXCEPT
                                     !.note = "existing", !.rows = read]
                  /\ UNCHANGED <<db, probe, result>>
             ELSE IF Len(issue.missingItems) = 0
             THEN /\ answers' = kept
                  /\ response' = [Ok(GenerateOp(regenerate), issueId) EXCEPT
                                     !.note = "No missing items to generate questions for"]
                  /\ UNCHANGED <<settings, ruleset, mappings, scannedIssues, auditLog,
                                 probe, result>>
             ELSE /\ Len(kept) = 0 \/ Len(created) <= MaxAnswers
                  /\ answers' = created
                  /\ scannedIssues' =
                       [scannedIssues EXCEPT ![IssueIndex(issueId)] = GeneratedData(@)]
                  /\ response' = [Ok(GenerateOp(regenerate), issueId) EXCEPT
                                     !.note = "generated",
                                     !.rows = SubSeq(created, Len(kept) + 1, Len(created))]
                  /\ UNCHANGED <<settings, ruleset, mappings, auditLog, probe, result>>

\* the same request without regenerate, as the two steps other requests can come
\* between: the read of the issue with its answers, then the check, the creates
\* and the update
GenerateRead(issueId) ==
    /\ probe = NoProbe
    /\ HasIssue(issueId)
    /\ probe' = [pc |-> "generate", issueId |-> issueId, issue |-> IssueById(issueId),
                 read |-> AnswersOf(answers, issueId)]
    /\ UNCHANGED <<db, response, result>>

GenerateWrite ==
    /\ probe # NoProbe
    /\ IF ReturnsExisting(probe.issue, probe.read, FALSE)
       THEN /\ response' = [Ok("generateQuestions", probe.issueId) EXCEPT
                               !.note = "existing", !.rows = probe.read]
            /\ UNCHANGED db
       ELSE IF Len(probe.issue.missingItems) = 0
       THEN /\ response' = [Ok("generateQuestions", probe.issueId) EXCEPT
                               !.note = "No missing items to generate questions for"]
            /\ UNCHANGED db
       ELSE IF ~HasIssue(probe.issueId)
       THEN \* the first create breaks the foreign key and throws
            /\ response' = Err("generateQuestions", 500)
            /\ UNCHANGED db
       ELSE LET created == CreateQuestions(answers, probe.issueId,
                                           generateMockQuestions(probe.issue.missingItems))
            IN  /\ answers' = created
                /\ scannedIssues' =
                     [scannedIssues EXCEPT ![IssueIndex(probe.issueId)] = GeneratedData(@)]
                /\ response' = [Ok("generateQuestions", probe.issueId) EXCEPT
                                   !.note = "generated",
                                   !.rows = SubSeq(created, Len(answers) + 1, Len(created))]
                /\ UNCHANGED <<settings, ruleset, mappings, auditLog>>
    /\ probe' = NoProbe
    /\ UNCHANGED result

(***************************************************************************)
(* POST /api/questions/answer                                              *)
(***************************************************************************)
\* the model keeps the newest MaxAudit rows of the AuditLog table
MaxAudit == 1

Audit(action, entityId) == [action |-> action, entityId |-> entityId]

\* prisma.auditLog.create
AuditCreate(log, entry) ==
    LET all == Append(log, entry)
    IN  IF Len(all) > MaxAudit THEN Tail(all) ELSE all

\* the question texts drawn: one of the issue's persisted questions, or the canned one
SubmittedQuestions(issueId) ==
    {answers[k].question : k \in {j \in 1..Len(answers) : answers[j].issueId = issueId}}
    \cup { QuestionText([missingRule |-> NameTS, question |-> <<"q", "1">>]) }

\* the answer texts drawn: a text, and none
SubmittedAnswers == { <<"y">>, <<>> }

SubmitAnswer(issueId, question, answer) ==
    IF question = <<>> \/ answer = <<>>
    THEN /\ response' = Err("submitAnswer", 400)
         /\ UNCHANGED <<db, probe, result>>
    ELSE IF ~HasIssue(issueId)
    THEN \* the insert breaks the foreign key and throws
         /\ response' = Err("submitAnswer", 500)
         /\ UNCHANGED <<db, probe, result>>
    ELSE /\ Len(answers) < MaxAnswers
         /\ answers' = Append(answers, [id |-> FreshId(answers), issueId |-> issueId,
                                        question |-> question, answer |-> answer])
         /\ auditLog' = AuditCreate(auditLog, Audit("QUESTION_ANSWERED", FreshId(answers)))
         /\ response' = [Ok("submitAnswer", issueId) EXCEPT !.code = 201]
         /\ UNCHANGED <<settings, ruleset, mappings, scannedIssues, probe, result>>

(***************************************************************************)
(* POST /api/slack/send                                                    *)
(***************************************************************************)
\* the answer the mock mode gives for a rule, or the generic one
MOCK_ANSWERS(ruleName) ==
    CASE ruleName = NameTS -> <<"m", "1">>
      [] ruleName = NameAS -> <<"m", "2">>
      [] ruleName = NamePS -> <<"m", "3">>
      [] OTHER -> <<"o", "k">>

\* qa.question.match(/^\[(.+?)\]/): the group, or '' when there is no match
BracketedName(question) ==
    LET closes == {k \in 3..Len(question) : question[k] = "]"}
    IN  IF Len(question) >= 3 /\ question[1] = "[" /\ closes # {}
        THEN SubSeq(question, 2, (CHOOSE k \in closes : \A j \in closes : k <= j) - 1)
        ELSE <<>>

\* !a.answer || a.answer.trim() === ''
IsUnanswered(a) == ~IsAnswered(a)

\* a loop that writes the synthesized answer on every row of the issue
MockAnswerEveryRow(rows, issueId) ==
    [k \in 1..Len(rows) |->
        IF rows[k].issueId = issueId
        THEN [rows[k] EXCEPT !.answer = MOCK_ANSWERS(BracketedName(rows[k].question))]
        ELSE rows[k]]

\* the loop of prisma.qaAnswer.update over the unanswered questions read before
MockAnswerAll(rows, issueId) ==
    [k \in 1..Len(rows) |->
        IF rows[k].issueId = issueId /\ IsUnanswered(rows[k])
        THEN [rows[k] EXCEPT !.answer = MOCK_ANSWERS(BracketedName(rows[k].question))]
        ELSE rows[k]]

\* an update of slackMessageSent alone
MarkSentFlagOnly(rows, issueId) ==
    [rows EXCEPT ![CHOOSE k \in 1..Len(rows) : rows[k].id = issueId] =
        [@ EXCEPT !.slackMessageSent = TRUE]]

\* the update of both send paths
MarkSent(rows, issueId) ==
    [rows EXCEPT ![CHOOSE k \in 1..Len(rows) : rows[k].id = issueId] =
        [@ EXCEPT !.slackMessageSent = TRUE, !.status = "WAITING_ON_SLACK"]]

\* what Slack does in live mode: whether users.lookupByEmail finds the assignee,
\* and whether chat.postMessage delivers
SlackOutcomes == [lookup : {"found", "none"}, deliver : {"ok", "fails"}]

\* a resolution that falls back to the default channel whether or not one is set
TargetChannelAlways(issue, slack) ==
    IF Truthy(issue.assignee) /\ issue.assignee.s \in mappings THEN "mapped"
    ELSE IF Truthy(issue.assignee) /\ slack.lookup = "found" THEN "lookedUp"
    ELSE "default"

\* where the message goes: the mapped user, else the user looked up by email,
\* else the default channel, else '' (nowhere)
TargetChannel(issue, slack) ==
    IF Truthy(issue.assignee) /\ issue.assignee.s \in mappings THEN "mapped"
    ELSE IF Truthy(issue.assignee) /\ slack.lookup = "found" THEN "lookedUp"
    ELSE IF settings.slackDefaultChannel THEN "default"
    ELSE ""

SendToMessaging(issueId, slack) ==
    IF ~HasIssue(issueId)
    THEN /\ response' = Err("sendToMessaging", 404)
         /\ UNCHANGED <<db, probe, result>>
    ELSE IF ~settings.exists
    THEN /\ response' = Err("sendToMessaging", 400)
         /\ UNCHANGED <<db, probe, result>>
    ELSE LET issue == IssueById(issueId)
             targetChannel == TargetChannel(issue, slack)
             lookedUp == targetChannel = "lookedUp"
             hasTarget == targetChannel # ""
             unansweredQuestions == SelectSeq(AnswersOf(answers, issueId), IsUnanswered)
         IN  IF settings.mockMode
             THEN /\ scannedIssues' = MarkSent(scannedIssues, issueId)
                  /\ answers' = MockAnswerAll(answers, issueId)
                  /\ auditLog' = AuditCreate(auditLog, Audit("SLACK_MESSAGE_SENT", issueId))
                  /\ response' = [Ok("sendToMessaging", issueId) EXCEPT !.note = "mock"]
                  /\ UNCHANGED <<settings, ruleset, mappings, probe, result>>
             ELSE IF ~settings.slackBotToken
             THEN /\ response' = [Err("sendToMessaging", 400) EXCEPT !.note = "no token"]
                  /\ UNCHANGED <<db, probe, result>>
             ELSE /\ mappings' = IF lookedUp THEN mappings \cup {issue.assignee.s} ELSE mappings
                  /\ IF ~hasTarget
                     THEN /\ response' = [Err("sendToMessaging", 400) EXCEPT
                                             !.note = "no target"]
                          /\ UNCHANGED <<scannedIssues, auditLog>>
                     ELSE IF unansweredQuestions = <<>>
                     THEN /\ response' = [Ok("sendToMessaging", issueId) EXCEPT
                                             !.note = "No unanswered questions to send."]
                          /\ UNCHANGED <<scannedIssues, auditLog>>
                     ELSE IF slack.deliver = "fails"
                     THEN /\ response' = Err("sendToMessaging", 500)
                          /\ UNCHANGED <<scannedIssues, auditLog>>
                     ELSE /\ scannedIssues' = MarkSent(scannedIssues, issueId)
                          /\ auditLog' = AuditCreate(auditLog, Audit("SLACK_MESSAGE_SENT", issueId))
                          /\ response' = [Ok("sendToMessaging", issueId) EXCEPT
                                             !.note = "live",
                                             !.rows = <<[slackUser |-> targetChannel]>>]
                  /\ UNCHANGED <<settings, ruleset, answers, probe, result>>

(***************************************************************************)
(* DELETE /api/mappings                                                    *)
(***************************************************************************)
\* the mapping is named by the e-mail it maps; deleting a row that is not there throws
DeleteMapping(jiraEmail) ==
    /\ mappings' = mappings \ {jiraEmail}
    /\ response' = IF jiraEmail \in mappings THEN Ok("deleteMapping", 0)
                   ELSE Err("deleteMapping", 500)
    /\ UNCHANGED <<settings, ruleset, scannedIssues, answers, auditLog, probe, result>>

(***************************************************************************)
(* POST /api/issues/override                                               *)
(***************************************************************************)
\* the request bodies drawn; "absent" is a field the body omits
OverrideBodies ==
    {[manualOverride |-> b[1], overrideReason |-> b[2], newStatus |-> b[3]] :
        b \in {<<"absent", "absent", "absent">>, <<"absent", "approved", "absent">>,
               <<"true", "approved", "READY">>, <<"false", "absent", "DONE">>}}

\* the update that drops the reason
OverrideDataNoReason(issue, body) ==
    [issue EXCEPT
        !.manualOverride =
            IF body.manualOverride = "absent" THEN TRUE ELSE body.manualOverride = "true",
        !.status = IF body.newStatus = "absent" THEN @ ELSE body.newStatus]

\* the data of prisma.scannedIssue.update: status: undefined leaves the column alone
OverrideData(issue, body) ==
    [issue EXCEPT
        !.manualOverride =
            IF body.manualOverride = "absent" THEN TRUE ELSE body.manualOverride = "true",
        !.overrideReason =
            IF body.overrideReason = "absent" THEN "" ELSE body.overrideReason,
        !.status = IF body.newStatus = "absent" THEN @ ELSE body.newStatus]

Override(issueId, body) ==
    IF ~HasIssue(issueId)
    THEN \* prisma.scannedIssue.update throws: no such row
         /\ response' = Err("override", 500)
         /\ UNCHANGED <<db, probe, result>>
    ELSE /\ scannedIssues' =
              [scannedIssues EXCEPT ![IssueIndex(issueId)] = OverrideData(@, body)]
         /\ auditLog' = AuditCreate(auditLog, Audit("MANUAL_OVERRIDE", issueId))
         /\ response' = Ok("override", issueId)
         /\ UNCHANGED <<settings, ruleset, mappings, answers, probe, result>>

(***************************************************************************)
(* POST /api/slack/interact: the submission of the answer modal            *)
(***************************************************************************)
\* the headers drawn: a pair that verifies, one that does not, a signature of
\* another length than the computed one, or a header left out
Signatures == {"valid", "invalid", "short", "missing"}

\* the text typed into the modal for each question
ModalInputs == { <<" ", "y">>, <<"n">>, <<" ">> }

\* the rows the submission updates: the questionIds that still have a row
ModalAnswer(rows, questionIds, inputValue) ==
    [k \in 1..Len(rows) |->
        IF rows[k].id \in questionIds /\ Trim(inputValue) # <<>>
        THEN [rows[k] EXCEPT !.answer = Trim(inputValue)]
        ELSE rows[k]]

SlackInteract(signature, issueId, questionIds, inputValue) ==
    IF ~settings.exists
    THEN /\ response' = Err("slackInteract", 400)
         /\ UNCHANGED <<db, probe, result>>
    ELSE IF ~settings.mockMode /\ settings.slackSigningSecret /\ signature = "invalid"
    THEN /\ response' = Err("slackInteract", 401)
         /\ UNCHANGED <<db, probe, result>>
    ELSE IF ~settings.mockMode /\ settings.slackSigningSecret /\ signature = "short"
    THEN \* crypto.timingSafeEqual throws on buffers of different lengths
         /\ response' = Err("slackInteract", 500)
         /\ UNCHANGED <<db, probe, result>>
    ELSE /\ answers' = ModalAnswer(answers, questionIds, inputValue)
         /\ auditLog' = AuditCreate(auditLog, Audit("SLACK_ANSWERS_RECEIVED", issueId))
         /\ response' = Ok("slackInteract", issueId)
         /\ UNCHANGED <<settings, ruleset, mappings, scannedIssues, probe, result>>

(***************************************************************************)
(* The engine: an empty database, then any request at any time.            *)
(***************************************************************************)
NoResponse == [op |-> "none", code |-> 0, issueId |-> 0, note |-> "", rows |-> <<>>]

Init ==
    /\ settings = NoSettings
    /\ ruleset = NoRuleset
    /\ mappings = {}
    /\ scannedIssues = <<>>
    /\ answers = <<>>
    /\ auditLog = <<>>
    /\ response = NoResponse
    /\ probe = NoProbe
    /\ result = NoResult

\* the issue ids drawn: every row's id, and one that has no row
IssueIdInputs == IssueIds \cup {Len(scannedIssues) + 1}

\* the question ids a modal submission may carry: one row's id, or a stale one
QuestionIdInputs ==
    {{answers[k].id} : k \in 1..Len(answers)} \cup {{Len(answers) + 1}}

\* scans: rules, thresholds, full scans, rescans and sends
NextScan ==
    \/ Seed
    \/ \E body \in RuleBodies : UpdateRule(body)
    \/ \E body \in ThresholdBodies : UpdateThresholds(body)
    \/ \E jira \in {"answers", "fails"} : ScanAll(jira)
    \/ \E issueId \in IssueIdInputs, jira \in {"answers", "fails"} : RescanOne(issueId, jira)
    \/ \E issueId \in IssueIdInputs, slack \in SlackOutcomes : SendToMessaging(issueId, slack)

SpecScan == Init /\ [][NextScan]_vars

\* overrides: rules, full scans, rescans and overrides
NextOverride ==
    \/ Seed
    \/ \E body \in RuleBodies : UpdateRule(body)
    \/ \E jira \in {"answers", "fails"} : ScanAll(jira)
    \/ \E issueId \in IssueIdInputs, jira \in {"answers", "fails"} : RescanOne(issueId, jira)
    \/ \E issueId \in IssueIdInputs, body \in OverrideBodies : Override(issueId, body)

SpecOverride == Init /\ [][NextOverride]_vars

\* questions: rules that compile, full scans, generation and answers; no request
\* here leaves mock mode, so Jira and the LLM are never asked
NextQuestions ==
    \/ Seed
    \/ \E body \in {b \in RuleBodies : b.expectedPattern # PatternMalformed} : UpdateRule(body)
    \/ ScanAll("answers")
    \/ \E issueId \in IssueIdInputs, regenerate \in BOOLEAN :
           GenerateQuestions(issueId, regenerate, <<>>)
    \/ \E issueId \in IssueIdInputs :
           \E question \in SubmittedQuestions(issueId), answer \in SubmittedAnswers :
               SubmitAnswer(issueId, question, answer)

SpecQuestions == Init /\ [][NextQuestions]_vars

\* sends: settings, rules that compile, full scans, first generation and sends
NextSend ==
    \/ Seed
    \/ \E body \in SettingsBodies : UpdateSettings(body)
    \/ \E body \in {b \in RuleBodies : b.expectedPattern # PatternMalformed} : UpdateRule(body)
    \/ \E jira \in {"answers", "fails"} : ScanAll(jira)
    \/ \E issueId \in IssueIdInputs, llm \in LlmReplies : GenerateQuestions(issueId, FALSE, llm)
    \/ \E issueId \in IssueIdInputs, slack \in SlackOutcomes : SendToMessaging(issueId, slack)

SpecSend == Init /\ [][NextSend]_vars

\* the seeded rule set after PUT /api/rules has given the first rule a pattern
\* that compiles
RepairedRuleset ==
    [exists |-> TRUE, thresholdReady |-> SeedThresholdReady,
     thresholdClarification |-> SeedThresholdClarification,
     rules |-> [DEFAULT_RULES EXCEPT ![1].expectedPattern = PatternClean]]

\* the database after the seed, the repair of the rule pattern and one full scan
InitScanned ==
    /\ settings = [exists |-> TRUE, mockMode |-> TRUE, slackBotToken |-> TRUE,
                   slackSigningSecret |-> TRUE, slackDefaultChannel |-> FALSE,
                   llmApiKey |-> TRUE]
    /\ ruleset = RepairedRuleset
    /\ mappings = SeedMappings
    /\ scannedIssues = ScanLoop(<<>>, MOCK_ISSUES, RepairedRuleset).rows
    /\ answers = <<>>
    /\ auditLog = <<>>
    /\ response = Ok("scanAll", 0)
    /\ probe = NoProbe
    /\ result = NoResult

\* the life of a scanned issue in mock mode: full scans, and rescans, generation,
\* typed answers, sends, overrides and modal submissions for the first issue
NextEngine ==
    \/ ScanAll("answers")
    \/ \E issueId \in IssueIds \cap {1} : RescanOne(issueId, "answers")
    \/ \E issueId \in IssueIds \cap {1} : GenerateQuestions(issueId, FALSE, <<>>)
    \/ \E issueId \in IssueIds \cap {1} :
           SubmitAnswer(issueId, QuestionText([missingRule |-> NameTS, question |-> <<"q", "1">>]),
                        <<"y">>)
    \/ \E issueId \in IssueIds \cap {1} :
           SendToMessaging(issueId, [lookup |-> "none", deliver |-> "ok"])
    \/ \E issueId \in IssueIds \cap {1}, body \in OverrideBodies : Override(issueId, body)
    \/ \E issueId \in IssueIds \cap {1}, questionIds \in QuestionIdInputs :
           SlackInteract("valid", issueId, questionIds, <<" ", "y">>)

SpecEngine == InitScanned /\ [][NextEngine]_vars

\* the answers of the first scanned issue in mock mode: generation and
\* regeneration, typed answers, sends and modal submissions with every input
NextAnswers ==
    \/ \E regenerate \in BOOLEAN : GenerateQuestions(1, regenerate, <<>>)
    \/ SubmitAnswer(1, QuestionText([missingRule |-> NameTS, question |-> <<"q", "1">>]), <<"y">>)
    \/ SendToMessaging(1, [lookup |-> "none", deliver |-> "ok"])
    \/ \E questionIds \in QuestionIdInputs, inputValue \in ModalInputs :
           SlackInteract("valid", 1, questionIds, inputValue)

SpecAnswers == InitScanned /\ [][NextAnswers]_vars

\* two generation requests at once in mock mode: one in two steps, and whole
\* generation requests and sends that commit whether or not the first is between
\* its steps
NextGenerateRace ==
    \/ \E issueId \in IssueIds : GenerateRead(issueId)
    \/ GenerateWrite
    \/ \E issueId \in IssueIds : GenerateQuestions(issueId, FALSE, <<>>)
    \/ \E issueId \in IssueIds :
           SendToMessaging(issueId, [lookup |-> "none", deliver |-> "ok"])

SpecGenerateRace == InitScanned /\ [][NextGenerateRace]_vars

\* modal submissions in mock and live mode, the signing secret configured: the
\* mode switched, generation for the first issue, and submissions with every
\* kind of headers
NextInteract ==
    \/ \E body \in SettingsBodies : UpdateSettings(body)
    \/ \E regenerate \in BOOLEAN : GenerateQuestions(1, regenerate, <<>>)
    \/ \E signature \in Signatures, questionIds \in QuestionIdInputs :
           \E inputValue \in ModalInputs : SlackInteract(signature, 1, questionIds, inputValue)

SpecInteract == InitScanned /\ [][NextInteract]_vars

\* the settings saved before live sends: live mode, with or without a default channel
LiveSettingsBodies == [mockMode : {FALSE}, slackDefaultChannel : {"absent", "C1"}]

\* live sends: settings saved before or after the seed, mappings deleted, a rule
\* given a pattern that compiles, scans, questions and sends with every outcome of Slack
NextLiveSend ==
    \/ Seed
    \/ \E body \in LiveSettingsBodies : UpdateSettings(body)
    \/ \E jiraEmail \in SeedMappings : DeleteMapping(jiraEmail)
    \/ \E body \in {b \in RuleBodies : b.expectedPattern = PatternClean} : UpdateRule(body)
    \/ ScanAll("answers")
    \/ \E issueId \in IssueIds : GenerateQuestions(issueId, FALSE, <<>>)
    \/ \E issueId \in IssueIdInputs, slack \in SlackOutcomes : SendToMessaging(issueId, slack)

SpecLiveSend == Init /\ [][NextLiveSend]_vars

\* the answers typed by hand: an answer to a generated question, and a blank answer
\* to a free question without a bracketed rule name
TypedAnswers ==
    { [question |-> QuestionText([missingRule |-> NameTS, question |-> <<"q", "1">>]),
       answer |-> <<"y">>],
      [question |-> <<"z">>, answer |-> <<" ">>] }

\* mock sends: the rule pattern repaired, full scans, first generation, typed answers
\* and sends; no request here leaves mock mode, so Jira, the LLM and Slack are never
\* asked
NextMockSend ==
    \/ Seed
    \/ \E body \in {b \in RuleBodies : b.expectedPattern = PatternClean} : UpdateRule(body)
    \/ ScanAll("answers")
    \/ \E issueId \in IssueIdInputs : GenerateQuestions(issueId, FALSE, <<>>)
    \/ \E issueId \in IssueIdInputs, typed \in TypedAnswers :
           SubmitAnswer(issueId, typed.question, typed.answer)
    \/ \E issueId \in IssueIdInputs :
           SendToMessaging(issueId, [lookup |-> "none", deliver |-> "ok"])

SpecMockSend == Init /\ [][NextMockSend]_vars

\* the threshold updates of the settings page: each field omitted (0) or a value in
\* tenths, in range or just above it
ThresholdInputs ==
    [thresholdReady : {0, 1, 20, 25, 45, 50, 51},
     thresholdClarification : {0, 1, 20, 25, 45, 50, 51}]

\* threshold updates: seeding, rule updates and updates of either threshold
NextThresholds ==
    \/ Seed
    \/ \E body \in RuleBodies : UpdateRule(body)
    \/ \E body \in ThresholdInputs : UpdateThresholds(body)

SpecThresholds == Init /\ [][NextThresholds]_vars

\* the write of a handler that the database refuses (a busy or broken database):
\* the writes before it are committed, the exception reaches the handler's catch
SendFaults == {"issueUpdate", "answerUpdate", "auditCreate"}

\* the mock send of an issue whose write at the given place throws
MockSendFailing(issueId, fault) ==
    /\ settings.exists /\ settings.mockMode /\ HasIssue(issueId)
    /\ fault = "answerUpdate" =>
           SelectSeq(AnswersOf(answers, issueId), IsUnanswered) # <<>>
    /\ scannedIssues' = IF fault = "issueUpdate" THEN scannedIssues
                        ELSE MarkSent(scannedIssues, issueId)
    /\ answers' = IF fault = "auditCreate" THEN MockAnswerAll(answers, issueId) ELSE answers
    /\ response' = Err("sendToMessaging", 500)
    /\ UNCHANGED <<settings, ruleset, mappings, auditLog, probe, result>>

\* the first generation for an issue whose update of questionsGenerated throws after
\* the question rows were created
GenerateFailing(issueId) ==
    /\ HasIssue(issueId)
    /\ ~ReturnsExisting(IssueById(issueId), AnswersOf(answers, issueId), FALSE)
    /\ Len(IssueById(issueId).missingItems) > 0
    /\ LET created == CreateQuestions(answers, issueId,
                                      generateMockQuestions(IssueById(issueId).missingItems))
       IN  /\ Len(answers) = 0 \/ Len(created) <= MaxAnswers
           /\ answers' = created
    /\ response' = Err("generateQuestions", 500)
    /\ UNCHANGED <<settings, ruleset, mappings, scannedIssues, auditLog, probe, result>>

\* the override whose audit entry cannot be written after the issue was updated
OverrideFailing(issueId, body) ==
    /\ HasIssue(issueId)
    /\ scannedIssues' =
           [scannedIssues EXCEPT ![IssueIndex(issueId)] = OverrideData(@, body)]
    /\ response' = Err("override", 500)
    /\ UNCHANGED <<settings, ruleset, mappings, answers, auditLog, probe, result>>

\* requests that meet a failing write: the rule pattern repaired, full scans, then
\* generations, mock sends and overrides, each whole or cut short by the failure
NextFault ==
    \/ Seed
    \/ \E body \in {b \in RuleBodies : b.expectedPattern = PatternClean} : UpdateRule(body)
    \/ ScanAll("answers")
    \/ \E issueId \in IssueIdInputs : GenerateQuestions(issueId, FALSE, <<>>)
    \/ \E issueId \in IssueIdInputs : GenerateFailing(issueId)
    \/ \E issueId \in IssueIdInputs :
           SendToMessaging(issueId, [lookup |-> "none", deliver |-> "ok"])
    \/ \E issueId \in IssueIdInputs, fault \in SendFaults : MockSendFailing(issueId, fault)
    \/ \E issueId \in IssueIdInputs :
           OverrideFailing(issueId, [manualOverride |-> "true", overrideReason |-> "approved",
                                     newStatus |-> "READY"])

SpecFault == Init /\ [][NextFault]_vars

\* a rescan in two steps among overrides: while a rescan is between its read and
\* its update, overrides of any issue commit
NextRace ==
    \/ probe = NoProbe /\ Seed
    \/ probe = NoProbe /\ \E body \in {b \in RuleBodies : b.expectedPattern = PatternClean} :
                               UpdateRule(body)
    \/ probe = NoProbe /\ ScanAll("answers")
    \/ \E issueId \in IssueIds : RescanRead(issueId)
    \/ RescanWrite
    \/ \E issueId \in IssueIdInputs, body \in OverrideBodies : Override(issueId, body)

SpecRace == Init /\ [][NextRace]_vars

(***************************************************************************)
(* Question generation on its own: one scanned issue whose missing items   *)
(* are drawn, and the parsed reply of the LLM is drawn.                    *)
(***************************************************************************)
\* most items of a reply of the LLM
MaxLlmItems == 7

\* the rules that may be missing: two with two canned questions, two with one, and
\* one without canned questions
ProbeMissingRules == {NameAC, NameTD, NameTS, NameAS, <<"U">>}

\* missing items name each rule once, in any order
ProbeMissingLists ==
    UNION {{m \in [1..n -> ProbeMissingRules] : \A i, j \in 1..n : i # j => m[i] # m[j]} :
              n \in 0..Cardinality(ProbeMissingRules)}

\* an item of the parsed reply: a well-formed question, or one whose missingRule
\* is no string
ProbeLlmItems ==
    { [missingRule |-> Str(<<"X">>), question |-> Str(<<"q", "9">>)],
      [missingRule |-> Null, question |-> Str(<<"q", "9">>)] }

ProbeLlmContents == UNION {[1..n -> ProbeLlmItems] : n \in 0..MaxLlmItems}

\* the stored missingItems of the issue
ProbeMissingItems(names) ==
    [k \in 1..Len(names) |->
        [rule |-> names[k], severity |-> "warn", suggestion |-> SUGGESTED_FIXES(names[k])]]

InitGenerate ==
    /\ settings \in {[exists |-> TRUE, mockMode |-> m, slackBotToken |-> TRUE,
                       slackSigningSecret |-> TRUE, slackDefaultChannel |-> FALSE,
                       llmApiKey |-> TRUE] : m \in BOOLEAN}
    /\ ruleset = NoRuleset
    /\ mappings = {}
    /\ probe \in [missing : ProbeMissingLists, llm : {<<>>}]
                 \cup [missing : {<<NameAC, NameTD, NameTS, NameAS, <<"U">> >>},
                       llm : ProbeLlmContents]
    /\ scannedIssues =
           << [id |-> 1, jiraKey |-> "DEMO-102", description |-> Str(<<"b">>),
               assignee |-> Str(<<>>), readinessScore |-> Zero, status |-> "NEEDS_INFO",
               missingItems |-> ProbeMissingItems(probe.missing),
               questionsGenerated |-> FALSE, slackMessageSent |-> FALSE,
               manualOverride |-> FALSE, overrideReason |-> ""] >>
    /\ answers = <<>>
    /\ auditLog = <<>>
    /\ response = NoResponse
    /\ result = NoResult

\* generation requests for the issue, the LLM answering with the drawn reply
NextGenerate ==
    \E regenerate \in BOOLEAN :
        GenerateQuestions(1, regenerate, generateQuestionsViaLLM(probe.llm))

SpecGenerate == InitGenerate /\ [][NextGenerate]_vars

(***************************************************************************)
(* The scoring functions on their own: arguments are drawn, then one of    *)
(* the functions is called on them.                                        *)
(***************************************************************************)
\* the rules drawn: description rules of weight 1.0, assignee rules of weight 0.5 and 1.0
ProbeRules ==
    {Rule(NameTS, enabled, "error", 10, "description", pattern[1], pattern[2]) :
        enabled \in BOOLEAN,
        pattern \in {<<PatternClean, 0>>, <<PatternClean, 2>>, <<PatternLegacy, 0>>,
                     <<PatternLegacy, 2>>, <<PatternMalformed, 0>>}}
    \cup {Rule(NameAS, enabled, "info", weight, "assignee", <<>>, 0) :
            enabled \in BOOLEAN, weight \in {5, 10}}

\* the rule lists drawn
ProbeRuleLists == UNION {[1..n -> ProbeRules] : n \in 0..MaxRules}

\* the issues drawn
ProbeIssues ==
    {[description |-> d, assignee |-> a] :
        d \in {Undefined, Str(<<"A">>), Str(<<"b", "A", "b">>)},
        a \in {Null, Str(<<>>), Str(<<"u">>)}}
    \cup {[description |-> Str(<<"b">>)], [description |-> Str(<<>>), assignee |-> Arr(<<>>)]}

\* the answered-question lists drawn: n questions, naming the description rule (as
\* generated, or in lower case) or no rule
ProbeAnswered ==
    {[k \in 1..n |-> q] :
        n \in 0..MaxAnswered,
        q \in {QuestionText([missingRule |-> NameTS, question |-> <<"q", "1">>]),
               <<"t", "s", "?">>, <<"h", "o", "w">>}}

InitScore ==
    /\ settings = NoSettings
    /\ ruleset = NoRuleset
    /\ mappings = {}
    /\ scannedIssues = <<>>
    /\ answers = <<>>
    /\ auditLog = <<>>
    /\ response = NoResponse
    /\ probe \in [issue : ProbeIssues, rules : ProbeRuleLists, answered : ProbeAnswered]
    /\ result = NoResult

\* calculateReadinessScore(probe.issue, probe.rules)
CallCalculate ==
    /\ ~result.done
    /\ probe.answered = <<>>
    /\ LET r == calculateReadinessScore(probe.issue, probe.rules)
       IN  result' = [done |-> TRUE, threw |-> r.threw, score |-> r.value, missing |-> <<>>]
    /\ response' = Ok("calculateReadinessScore", 0)
    /\ UNCHANGED <<db, probe>>

\* scoreIssue(probe.issue, probe.rules, probe.answered)
CallScoreIssue ==
    /\ ~result.done
    /\ LET r == scoreIssue(probe.issue, probe.rules, probe.answered)
       IN  result' = [done |-> TRUE, threw |-> r.threw, score |-> r.score,
                      missing |-> r.missing]
    /\ response' = Ok("scoreIssue", 0)
    /\ UNCHANGED <<db, probe>>

NextScore == CallCalculate \/ CallScoreIssue

SpecScore == InitScore /\ [][NextScore]_vars


(***************************************************************************)
(* Properties of the scoring functions, under SpecScore.                   *)
(***************************************************************************)
\* a rule passes, as the specification reads it: the legacy marker is dropped,
\* and a pattern that does not compile fails
PassesAsSpecified(issue, rule) ==
    IF rule.expectedPattern # <<>>
    THEN /\ RegExpCompiles(StripInlineFlag(rule.expectedPattern))
         /\ FilterPasses(issue, rule)
    ELSE FilterPasses(issue, rule)

RECURSIVE EarnedAsSpecified(_, _)
\* the sum of the weights of the enabled rules that pass
EarnedAsSpecified(issue, rules) ==
    IF rules = <<>> THEN 0
    ELSE (IF Head(rules).enabled /\ PassesAsSpecified(issue, Head(rules))
          THEN Head(rules).weight ELSE 0)
         + EarnedAsSpecified(issue, Tail(rules))

\* a call of calculateReadinessScore has returned or thrown
CalculateCalled == result.done /\ response.op = "calculateReadinessScore"
\* a call of scoreIssue has returned or thrown
ScoreIssueCalled == result.done /\ response.op = "scoreIssue"

\* C1: for every issue and every rule list, calculateReadinessScore returns
\* 5 * (weights of the enabled rules that pass) / (weights of the enabled rules),
\* and 0 when no rule is enabled
C1_WeightedScore ==
    CalculateCalled =>
        /\ ~result.threw
        /\ FracEq(result.score,
                  IF TotalWeight(probe.rules) > 0
                  THEN Frac(5 * EarnedAsSpecified(probe.issue, probe.rules),
                            TotalWeight(probe.rules))
                  ELSE Zero)

\* a single enabled rule whose pattern carries the legacy marker
OneLegacyRule ==
    /\ Len(probe.rules) = 1
    /\ probe.rules[1].enabled
    /\ probe.rules[1].expectedPattern = PatternLegacy

\* C2: scoring against a rule whose pattern carries the legacy marker '(?i)' never
\* throws, and the rule passes (the score is 5) exactly when the pattern without
\* the marker matches the field value, whatever the case of the letters
C2_LegacyMarker ==
    (CalculateCalled /\ OneLegacyRule) =>
        /\ ~result.threw
        /\ FracEq(result.score, Five)
              <=> /\ RegExpTest(PatternClean,
                                ToStr(FieldValue(probe.issue, probe.rules[1].targetField)))
                  /\ Len(ToStr(FieldValue(probe.issue, probe.rules[1].targetField)))
                        >= probe.rules[1].minLength

\* C7: the score scoreIssue returns is at least the raw score and at most 5, and
\* is the raw score when no question is answered
C7_BoostBounds ==
    (ScoreIssueCalled /\ ~result.threw) =>
        LET raw == calculateReadinessScore(probe.issue, probe.rules).value
        IN  /\ FracGeq(result.score, raw)
            /\ FracLeq(result.score, Five)
            /\ (Len(probe.answered) = 0 => FracEq(result.score, raw))

\* a call whose answered questions outnumber the enabled rules and lift a raw score
\* below 5 up to the cap
C7_Boosted ==
    /\ ScoreIssueCalled /\ ~result.threw
    /\ Len(probe.answered) > EnabledCount(probe.rules)
    /\ EnabledCount(probe.rules) > 0
    /\ ~FracEq(calculateReadinessScore(probe.issue, probe.rules).value, Five)
    /\ FracEq(result.score, Five)


\* the enabled rules of the list drawn
EnabledRules == {k \in 1..Len(probe.rules) : probe.rules[k].enabled}

\* the only enabled rule of the list drawn
OnlyRule == probe.rules[CHOOSE k \in EnabledRules : TRUE]

\* the field is present with a non-empty value: no missing field, no null, no
\* empty string and no empty list
NonEmptyValue(v) ==
    CASE v.t = "undefined" -> FALSE
      [] v.t = "null" -> FALSE
      [] v.t = "string" -> v.s # <<>>
      [] v.t = "array" -> v.items # <<>>
      [] OTHER -> TRUE

MatchesAsSpecified(pattern, text) ==
    /\ RegExpCompiles(StripInlineFlag(pattern))
    /\ RegExpTest(StripInlineFlag(pattern), text)

\* C16: with a rule that has an expectedPattern and a minLength as the only enabled
\* rule, the rule passes (the score is 5) only if the pattern matches and the string
\* form of the field value has at least minLength characters; a value that matches
\* but is shorter makes the rule fail (the score is 0), and a value that does not
\* match fails whatever its length
C16_MinLengthDowngrades ==
    (CalculateCalled /\ Cardinality(EnabledRules) = 1 /\ OnlyRule.expectedPattern # <<>>
        /\ OnlyRule.minLength > 0) =>
        LET text == ToStr(FieldValue(probe.issue, OnlyRule.targetField))
        IN  /\ ~result.threw
            /\ FracEq(result.score,
                      IF MatchesAsSpecified(OnlyRule.expectedPattern, text)
                         /\ Len(text) >= OnlyRule.minLength
                      THEN Five ELSE Zero)

(***************************************************************************)
(* Properties of scans, under SpecScan.                                    *)
(***************************************************************************)
\* an enabled rule of the rule set has the malformed pattern
HasMalformedRule ==
    \E k \in 1..Len(ruleset.rules) :
        ruleset.rules[k].enabled /\ ruleset.rules[k].expectedPattern = PatternMalformed

\* C3: a full scan under a rule set with an enabled rule whose pattern does not
\* compile raises no error: it completes and persists every issue
C3_MalformedScanCompletes ==
    (/\ response.op = "scanAll"
     /\ settings.exists /\ settings.mockMode
     /\ ruleset.exists /\ HasMalformedRule)
    => /\ response.code = 200
       /\ \A k \in 1..Len(MOCK_ISSUES) : HasKey(scannedIssues, MOCK_ISSUES[k].key)

\* the rows of a table that hold a key
RowsOfKey(rows, jiraKey) == {j \in 1..Len(rows) : rows[j].jiraKey = jiraKey}

\* C4: a full scan that completes leaves exactly one row for each source key: it
\* inserts a row for a key it has not seen, updates in place the row of a key it
\* has seen, and leaves the number of rows alone when every key was seen
C4_OneRowPerKey ==
    [][(response'.op = "scanAll" /\ response'.code = 200) =>
        /\ \A k \in 1..Len(MOCK_ISSUES) :
               Cardinality(RowsOfKey(scannedIssues', MOCK_ISSUES[k].key)) = 1
        /\ Len(scannedIssues') >= Len(scannedIssues)
        /\ \A j \in 1..Len(scannedIssues) :
               /\ scannedIssues'[j].id = scannedIssues[j].id
               /\ scannedIssues'[j].jiraKey = scannedIssues[j].jiraKey
        /\ (\A k \in 1..Len(MOCK_ISSUES) : HasKey(scannedIssues, MOCK_ISSUES[k].key))
               => Len(scannedIssues') = Len(scannedIssues)
      ]_vars

\* a full scan has rewritten a row that a send had marked before
C4_Rescanned ==
    /\ response.op = "scanAll" /\ response.code = 200
    /\ Len(scannedIssues) = Len(MOCK_ISSUES)
    /\ \E j \in 1..Len(scannedIssues) :
           /\ scannedIssues[j].slackMessageSent
           /\ scannedIssues[j].status = "READY"

\* the rows a scan has written: all of them, or the one of the rescanned issue
ScannedRows(rows, reply) ==
    IF reply.op = "scanAll" THEN 1..Len(rows)
    ELSE {k \in 1..Len(rows) : rows[k].id = reply.issueId}

ContainsIgnoringCase(text, name) ==
    \E k \in 0..(Len(text) - Len(name)) :
        \A j \in 1..Len(name) : LowerChar(text[k + j]) = LowerChar(name[j])

\* the rule is to be listed: enabled, failing the pass test of the score, and
\* named by no answered question
ToBeListed(issue, rule, answered) ==
    /\ rule.enabled
    /\ ~RulePasses(issue, rule)
    /\ \A k \in 1..Len(answered) : ~ContainsIgnoringCase(answered[k], rule.name)

\* C25: the missing items of scoreIssue are, in rule order, exactly the enabled
\* rules that fail the pass test and that no answered question names, letter case
\* aside; with no answered question, exactly the enabled failing rules
C25_MissingItemsExact ==
    (result.done /\ ~result.threw /\ response.op = "scoreIssue") =>
        LET listed == SelectSeq(probe.rules,
                                LAMBDA rule : ToBeListed(probe.issue, rule, probe.answered))
        IN  /\ Len(result.missing) = Len(listed)
            /\ \A k \in 1..Len(listed) :
                   /\ result.missing[k].rule = listed[k].name
                   /\ result.missing[k].severity = listed[k].severity

\* a call with two enabled failing rules: the one a lower-case answered question
\* names is left out, the other is listed
C25_AnsweredRuleOmitted ==
    /\ result.done /\ ~result.threw /\ response.op = "scoreIssue"
    /\ Len(probe.rules) = 2
    /\ \A k \in 1..2 : probe.rules[k].enabled /\ ~RulePasses(probe.issue, probe.rules[k])
    /\ probe.rules[1].name = NameTS /\ probe.rules[2].name = NameAS
    /\ probe.answered = << <<"t", "s", "?">> >>
    /\ Len(result.missing) = 1 /\ result.missing[1].rule = NameAS

(***************************************************************************)
(* Properties of overrides, under SpecOverride.                            *)
(***************************************************************************)
\* C5: a rescan of an issue with manualOverride = true leaves its status as it was
C5_OverrideFreezesStatus ==
    [][(response'.op = "rescanOne" /\ response'.code = 200) =>
        \A k \in 1..Len(scannedIssues) :
            (scannedIssues[k].id = response'.issueId /\ scannedIssues[k].manualOverride)
            => scannedIssues'[k].status = scannedIssues[k].status
      ]_vars

\* a rescan has kept the status of an overridden issue whose score gives another
C5_FrozenAgainstScore ==
    /\ response.op = "rescanOne" /\ response.code = 200
    /\ \E k \in 1..Len(scannedIssues) :
           /\ scannedIssues[k].id = response.issueId
           /\ scannedIssues[k].manualOverride
           /\ scannedIssues[k].status #
                 StatusFor(scannedIssues[k].readinessScore, ruleset.thresholdReady,
                           ruleset.thresholdClarification)


\* C22: a full scan leaves the status of every issue with manualOverride = true as
\* it was
C22_FullScanKeepsOverrideStatus ==
    [][response'.op = "scanAll" =>
        \A k \in 1..Len(scannedIssues) :
            scannedIssues[k].manualOverride
            => scannedIssues'[k].status = scannedIssues[k].status
      ]_vars

\* the override requests of the operation override(issueId, reason, newStatus?):
\* on an issue that has a row, without a manualOverride field or with true
OverrideRequests ==
    {r \in [issueId : IssueIds, body : OverrideBodies] : r.body.manualOverride # "false"}

\* the reason a request gives: none is the empty reason
GivenReason(body) == IF body.overrideReason = "absent" THEN "" ELSE body.overrideReason

\* C11 as stated: after an override of an existing issue the issue has
\* manualOverride = true, the given reason, and the status newStatus, or READY
\* when newStatus is omitted; one MANUAL_OVERRIDE audit entry is appended
C11_OverrideDefaultsReady ==
    [][\A r \in OverrideRequests :
          Override(r.issueId, r.body) =>
              LET after == scannedIssues'[IssueIndex(r.issueId)]
              IN  /\ after.manualOverride
                  /\ after.overrideReason = GivenReason(r.body)
                  /\ after.status = IF r.body.newStatus = "absent" THEN "READY"
                                    ELSE r.body.newStatus
                  /\ auditLog' = AuditCreate(auditLog, Audit("MANUAL_OVERRIDE", r.issueId))
      ]_vars

\* C11: after an override of an existing issue the issue has manualOverride = true,
\* the given reason, and the status newStatus when one is given and the status it
\* had before when newStatus is omitted; every other field of the row and every
\* other row are as before, and one MANUAL_OVERRIDE audit entry is appended
C11_OverrideSetsFields ==
    [][\A r \in OverrideRequests :
          Override(r.issueId, r.body) =>
              LET k == IssueIndex(r.issueId)
                  before == scannedIssues[k]
                  after == scannedIssues'[k]
              IN  /\ after.manualOverride
                  /\ after.overrideReason = GivenReason(r.body)
                  /\ after.status = IF r.body.newStatus = "absent" THEN before.status
                                    ELSE r.body.newStatus
                  /\ Len(scannedIssues') = Len(scannedIssues)
                  /\ \A j \in 1..Len(scannedIssues) :
                         j # k => scannedIssues'[j] = scannedIssues[j]
                  /\ after.readinessScore = before.readinessScore
                  /\ after.jiraKey = before.jiraKey
                  /\ auditLog' = AuditCreate(auditLog, Audit("MANUAL_OVERRIDE", r.issueId))
      ]_vars

\* an override without newStatus has frozen an issue in a status other than READY
C11_OverriddenWithoutStatus ==
    /\ response.op = "override" /\ response.code = 200
    /\ auditLog # <<>> /\ auditLog[Len(auditLog)] = Audit("MANUAL_OVERRIDE", response.issueId)
    /\ \E k \in 1..Len(scannedIssues) :
           /\ scannedIssues[k].id = response.issueId
           /\ scannedIssues[k].manualOverride
           /\ scannedIssues[k].overrideReason = "approved"
           /\ scannedIssues[k].status = "NEEDS_INFO"

(***************************************************************************)
(* Properties of a rescan among overrides, under SpecRace.                 *)
(***************************************************************************)
\* C17: the steps of a rescan and of a concurrent override on the same issue leave
\* the issue as one of the two orders of the operations would: a rescan that read
\* the issue before the override committed does not overwrite the status the
\* override set
C17_RescanKeepsOverrideStatus ==
    [][(probe # NoProbe /\ response'.op = "rescanOne" /\ response'.code = 200) =>
        LET k == IssueIndex(probe.issueId)
        IN  (~probe.existingIssue.manualOverride /\ scannedIssues[k].manualOverride)
            => scannedIssues'[k].status = scannedIssues[k].status
      ]_vars

(***************************************************************************)
(* Properties of requests that meet a failing write, under SpecFault.      *)
(***************************************************************************)
\* C18: a request that reports an error has left every ScannedIssue row and every
\* QaAnswer row exactly as they were before it started
C18_ErrorChangesNothing ==
    [][response'.code >= 400 => (scannedIssues' = scannedIssues /\ answers' = answers)]_vars

(***************************************************************************)
(* Properties of threshold updates, under SpecThresholds.                  *)
(***************************************************************************)
\* C19: after any sequence of threshold updates the stored rule set has
\* thresholdClarification < thresholdReady, both above 0 and at most 5.0
C19_ThresholdsOrdered ==
    ruleset.exists =>
        /\ ruleset.thresholdClarification < ruleset.thresholdReady
        /\ ruleset.thresholdClarification \in 1..50
        /\ ruleset.thresholdReady \in 1..50

(***************************************************************************)
(* Properties of question generation, under SpecQuestions.                 *)
(***************************************************************************)
\* C8: a regenerating call deletes no row of another issue and no row with a
\* non-empty answer: each such row is still there, with its question and answer
C8_RegenerateKeepsAnswered ==
    [][response'.op = "regenerateQuestions" =>
        \A k \in 1..Len(answers) :
            (answers[k].issueId # response'.issueId \/ answers[k].answer # <<>>)
            => \E j \in 1..Len(answers') : answers'[j] = answers[k]
      ]_vars

\* a regenerating call has replaced an unanswered row of an issue that also has an
\* answered row, while another issue has an unanswered row
C8_Regenerated ==
    /\ response.op = "regenerateQuestions" /\ response.code = 200
    /\ response.note = "generated"
    /\ \E k \in 1..Len(answers) :
           answers[k].issueId = response.issueId /\ answers[k].answer # <<>>
    /\ \E k \in 1..Len(answers) :
           answers[k].issueId # response.issueId /\ answers[k].answer = <<>>
    /\ \E j, k \in 1..Len(answers) : j < k /\ answers[j].id > answers[k].id

\* C10, as stated: a non-regenerating call on an issue with questionsGenerated =
\* true creates, deletes and modifies no row, and returns the rows of the issue
C10_GeneratedOnce ==
    [][(/\ response'.op = "generateQuestions"
        /\ HasIssue(response'.issueId)
        /\ IssueById(response'.issueId).questionsGenerated)
       => /\ answers' = answers
          /\ response'.rows = AnswersOf(answers, response'.issueId)
      ]_vars

\* C10, amended: a non-regenerating call on an issue with questionsGenerated =
\* true that has at least one row creates, deletes and modifies no row, and
\* returns the rows of the issue
C10_GeneratedOnceWithRows ==
    [][(/\ response'.op = "generateQuestions"
        /\ HasIssue(response'.issueId)
        /\ IssueById(response'.issueId).questionsGenerated
        /\ AnswersOf(answers, response'.issueId) # <<>>)
       => /\ answers' = answers
          /\ response'.rows = AnswersOf(answers, response'.issueId)
      ]_vars

\* a non-regenerating call has returned the rows of an issue that has an answered
\* and an unanswered one
C10_ReturnedExisting ==
    /\ response.op = "generateQuestions" /\ response.code = 200
    /\ response.note = "existing"
    /\ response.rows = AnswersOf(answers, response.issueId)
    /\ \E k \in 1..Len(response.rows) : response.rows[k].answer = <<>>
    /\ \E k \in 1..Len(response.rows) : response.rows[k].answer # <<>>

\* the persisted questions of an issue, unanswered ones included
QuestionsOf(issueId) ==
    {answers[k].question : k \in {j \in 1..Len(answers) : answers[j].issueId = issueId}}

\* C12: submitAnswer for a question that has a row of the issue records the answer
\* on that row: the issue has as many rows as before, and no row with that question
\* text still has an empty answer
C12_AnswerRecordedOnRow ==
    [][\A issueId \in IssueIds :
          \A question \in QuestionsOf(issueId), answer \in SubmittedAnswers \ {<<>>} :
              SubmitAnswer(issueId, question, answer) =>
                  /\ Len(AnswersOf(answers', issueId)) = Len(AnswersOf(answers, issueId))
                  /\ \A k \in 1..Len(answers') :
                         (answers'[k].issueId = issueId /\ answers'[k].question = question)
                         => answers'[k].answer # <<>>
      ]_vars

(***************************************************************************)
(* Properties of one generation call, under SpecGenerate.                  *)
(***************************************************************************)
RECURSIVE PerRuleQuestions(_)
\* the question texts of the missing items, rule after rule
PerRuleQuestions(names) ==
    IF names = <<>> THEN <<>>
    ELSE LET rule == Head(names)
             canned == questionMap(rule)
         IN  [k \in 1..Len(canned) |-> <<"[">> \o rule \o <<"]", " ">> \o canned[k]]
             \o PerRuleQuestions(Tail(names))

\* the call took the questions of the LLM
TookLlmQuestions ==
    ~settings.mockMode /\ settings.llmApiKey /\ generateQuestionsViaLLM(probe.llm) # <<>>

\* C14: a generation call persists at most 6 new rows, on the template path and
\* on the LLM path; on the template path the new rows are the first 6 of the
\* per-rule questions in the order of the missing items, each with an empty answer
C14_AtMostSixQuestions ==
    [][(response'.code = 200 /\ response'.note = "generated") =>
        LET created == response'.rows
            all == PerRuleQuestions(probe.missing)
        IN  /\ Len(created) <= 6
            /\ Len(answers') <= Len(answers) + 6
            /\ \A k \in 1..Len(created) :
                   /\ created[k].answer = <<>>
                   /\ \E j \in 1..Len(answers') : answers'[j] = created[k]
            /\ ~TookLlmQuestions =>
                   /\ Len(created) = IF Len(all) < 6 THEN Len(all) ELSE 6
                   /\ \A k \in 1..Len(created) : created[k].question = all[k]
      ]_vars

\* a call on the template path that had seven questions to choose from has
\* persisted six rows
C14_SeventhQuestionDropped ==
    /\ response.op = "generateQuestions" /\ response.note = "generated"
    /\ ~TookLlmQuestions
    /\ Len(PerRuleQuestions(probe.missing)) = 7
    /\ Len(answers) = 6
    /\ Len(response.rows) = 6

(***************************************************************************)
(* Properties of mock sends, under SpecMockSend.                           *)
(***************************************************************************)
\* a row counts as unanswered when its answer is empty or blank
Blank(a) == Trim(a.answer) = <<>>

\* the answer the mock mode is to give a question: the text keyed by the rule name
\* between the leading brackets, or the generic text
SynthesizedAnswer(question) ==
    LET named == {n \in {NameTS, NameAS, NamePS} :
                     HasAt(question, <<"[">> \o n \o <<"]">>, 0)}
    IN  IF named # {} THEN MOCK_ANSWERS(CHOOSE n \in named : TRUE) ELSE <<"o", "k">>

\* C13: after a mock-mode send on an issue every row of the issue has a non-empty
\* answer: each unanswered row received the text keyed by its bracketed rule name
\* or the generic text, each answered row and each row of another issue is as it
\* was, no row was added or removed, and one SLACK_MESSAGE_SENT entry was appended
C13_MockSendAnswersAll ==
    [][(response'.op = "sendToMessaging" /\ response'.code = 200 /\ response'.note = "mock") =>
        LET issueId == response'.issueId
        IN  /\ Len(answers') = Len(answers)
            /\ \A k \in 1..Len(answers) :
                   IF answers[k].issueId = issueId /\ Blank(answers[k])
                   THEN /\ answers'[k] =
                             [answers[k] EXCEPT !.answer = SynthesizedAnswer(answers[k].question)]
                        /\ ~Blank(answers'[k])
                   ELSE answers'[k] = answers[k]
            /\ \A k \in 1..Len(answers') :
                   answers'[k].issueId = issueId => answers'[k].answer # <<>>
            /\ auditLog' = AuditCreate(auditLog, Audit("SLACK_MESSAGE_SENT", issueId))
      ]_vars

\* a mock send has left one issue with a kept answer, a keyed text and the generic text
C13_MockSendMixedRows ==
    /\ response.op = "sendToMessaging" /\ response.code = 200 /\ response.note = "mock"
    /\ auditLog # <<>> /\ auditLog[Len(auditLog)] = Audit("SLACK_MESSAGE_SENT", response.issueId)
    /\ \E i, j, k \in 1..Len(answers) :
           /\ answers[i].issueId = response.issueId /\ answers[i].answer = <<"y">>
           /\ answers[j].issueId = response.issueId /\ answers[j].answer = <<"m", "1">>
           /\ answers[k].issueId = response.issueId /\ answers[k].answer = <<"o", "k">>
                                                    /\ answers[k].question = <<"z">>

(***************************************************************************)
(* Properties of sends, under SpecSend.                                    *)
(***************************************************************************)
\* the issue of the last response is waiting on Slack, with its message sent
IssueWaiting ==
    /\ HasIssue(response.issueId)
    /\ IssueById(response.issueId).status = "WAITING_ON_SLACK"
    /\ IssueById(response.issueId).slackMessageSent

\* C6, as stated: every send that reports no error leaves the issue with status
\* WAITING_ON_SLACK and slackMessageSent = true
C6_SendForcesWaiting ==
    (response.op = "sendToMessaging" /\ response.code = 200) => IssueWaiting

\* C6, amended: every send that reports no error leaves the issue with status
\* WAITING_ON_SLACK and slackMessageSent = true, but for the live send that finds
\* no unanswered question and answers that there is nothing to send
C6_DeliveredSendForcesWaiting ==
    (/\ response.op = "sendToMessaging" /\ response.code = 200
     /\ response.note # "No unanswered questions to send.")
    => IssueWaiting

\* a live send has delivered the questions of an issue whose score is at
\* thresholdReady or above
C6_LiveSendOfReadyIssue ==
    /\ response.op = "sendToMessaging" /\ response.code = 200
    /\ response.note = "live"
    /\ IssueWaiting
    /\ FracGeq(IssueById(response.issueId).readinessScore,
               Frac(ruleset.thresholdReady, 10))


(***************************************************************************)
(* Properties of live sends, under SpecLiveSend                            *)
(***************************************************************************)
\* a destination exists: a mapping of the assignee, a user Slack finds by the
\* assignee's e-mail, or a default channel
DestinationResolved(issue, slack) ==
    \/ issue.assignee.t = "string" /\ issue.assignee.s # <<>> /\ issue.assignee.s \in mappings
    \/ issue.assignee.t = "string" /\ issue.assignee.s # <<>> /\ slack.lookup = "found"
    \/ settings.slackDefaultChannel

\* the issue has a question without an answer, so a message is to be delivered
HasOpenQuestion(issueId) ==
    \E k \in 1..Len(answers) :
        answers[k].issueId = issueId /\ (answers[k].answer = <<>> \/ Trim(answers[k].answer) = <<>>)

\* C20: in live mode a send changes the issue (slackMessageSent, WAITING_ON_SLACK)
\* only when a token is configured, a destination resolved and the message was
\* delivered; without a token, without a destination, or when the delivery fails,
\* the request answers with an error and leaves every issue as it was
C20_LiveSendMarksAfterDelivery ==
    [][\A issueId \in IssueIds, slack \in SlackOutcomes :
          (settings.exists /\ ~settings.mockMode /\ SendToMessaging(issueId, slack)) =>
              LET issue == IssueById(issueId)
                  resolved == DestinationResolved(issue, slack)
              IN  /\ scannedIssues' # scannedIssues =>
                        /\ settings.slackBotToken /\ resolved /\ slack.deliver = "ok"
                        /\ response'.code = 200
                        /\ IssueById(issueId)'.slackMessageSent
                        /\ IssueById(issueId)'.status = "WAITING_ON_SLACK"
                  /\ (\/ ~settings.slackBotToken
                      \/ ~resolved
                      \/ HasOpenQuestion(issueId) /\ slack.deliver = "fails") =>
                        /\ response'.code >= 400
                        /\ scannedIssues' = scannedIssues]_vars

\* a live send whose delivery failed: an error, and no issue marked as sent
C20_DeliveryFailedUnmarked ==
    /\ settings.exists /\ ~settings.mockMode /\ settings.slackBotToken
    /\ response.op = "sendToMessaging" /\ response.code = 500
    /\ \E issueId \in IssueIds : HasOpenQuestion(issueId)
    /\ \A k \in 1..Len(scannedIssues) :
           ~scannedIssues[k].slackMessageSent /\ scannedIssues[k].status # "WAITING_ON_SLACK"

(***************************************************************************)
(* Properties of question texts, under SpecSend                            *)
(***************************************************************************)
\* the names of the rules of the active rule set
RuleNames == {ruleset.rules[k].name : k \in 1..Len(ruleset.rules)}

\* C21: every QaAnswer row has a question text that starts with '[R] ' where R is
\* the name of a rule of the active rule set
C21_QuestionsCarryRuleName ==
    \A k \in 1..Len(answers) :
        \E R \in RuleNames : HasAt(answers[k].question, <<"[">> \o R \o <<"]", " ">>, 0)

(***************************************************************************)
(* Properties of the life of a scanned issue, under SpecEngine             *)
(***************************************************************************)
\* the override requests that carry manualOverride: false
ClearingBodies == {body \in OverrideBodies : body.manualOverride = "false"}

\* the issue with this id still has a row, and that row has manualOverride = true
StillOverridden(rows, id) ==
    /\ \E j \in 1..Len(rows) : rows[j].id = id
    /\ \A j \in 1..Len(rows) : rows[j].id = id => rows[j].manualOverride

\* C23 as stated: once manualOverride is true it stays true in every later state,
\* whatever the request, further override requests with any body included
C23_OverrideNeverCleared ==
    [][\A k \in 1..Len(scannedIssues) :
          scannedIssues[k].manualOverride => StillOverridden(scannedIssues', scannedIssues[k].id)
      ]_vars

\* C23: once manualOverride is true it stays true through full scans, rescans,
\* generation, answers, sends, modal submissions and override requests that omit
\* manualOverride or carry true; only an override request with manualOverride: false
\* sets it back to false
C23_OverrideStaysUnlessCleared ==
    [][\A k \in 1..Len(scannedIssues) :
          scannedIssues[k].manualOverride =>
              \/ StillOverridden(scannedIssues', scannedIssues[k].id)
              \/ \E body \in ClearingBodies : Override(scannedIssues[k].id, body)
      ]_vars

\* an issue overridden before a send (the newest audit row is the send's) is still
\* overridden after the rescan that followed
C23_OverriddenThroughSendAndRescan ==
    /\ response.op = "rescanOne" /\ response.code = 200
    /\ auditLog # <<>> /\ auditLog[Len(auditLog)].action = "SLACK_MESSAGE_SENT"
    /\ \E k \in 1..Len(scannedIssues) :
           /\ scannedIssues[k].id = response.issueId
           /\ scannedIssues[k].manualOverride
           /\ scannedIssues[k].slackMessageSent
           /\ scannedIssues[k].questionsGenerated

\* the score of the issue's source fields alone, in mock mode
RawScore(row) ==
    calculateReadinessScore(SourceIssue(MOCK_ISSUES, row.jiraKey), ruleset.rules).value

\* C26: a rescan lifts the score above the raw score by at most 0.6 * (5 - raw)
C26_BoostDamped ==
    [][(response'.op = "rescanOne" /\ response'.code = 200) =>
        \A k \in 1..Len(scannedIssues') :
            scannedIssues'[k].id = response'.issueId =>
                FracLeq(FracSub(scannedIssues'[k].readinessScore, RawScore(scannedIssues'[k])),
                        FracMul(Frac(6, 10), FracSub(Five, RawScore(scannedIssues'[k]))))
      ]_vars

\* C27: the status of every scanned issue is one of NEEDS_INFO,
\* NEEDS_CLARIFICATION, READY and WAITING_ON_SLACK
C27_StatusInDomain ==
    \A k \in 1..Len(scannedIssues) :
        scannedIssues[k].status \in
            {"NEEDS_INFO", "NEEDS_CLARIFICATION", "READY", "WAITING_ON_SLACK"}

\* the requests that generate questions or record answers
QuestionOps == {"generateQuestions", "regenerateQuestions", "submitAnswer", "slackInteract"}

\* the fields of a row that scans, rescans and overrides decide
Verdict(row) == <<row.id, row.status, row.readinessScore, row.missingItems, row.manualOverride>>

\* C28: generation, typed answers and modal submissions change neither status,
\* readinessScore, missingItems nor manualOverride of any issue, and an issue in
\* WAITING_ON_SLACK leaves that status only by a full scan, or by a rescan or an
\* override of that issue
C28_WaitingUntilScanOrOverride ==
    [][/\ response'.op \in QuestionOps =>
            /\ Len(scannedIssues') = Len(scannedIssues)
            /\ \A k \in 1..Len(scannedIssues) :
                   Verdict(scannedIssues'[k]) = Verdict(scannedIssues[k])
       /\ \A k \in 1..Len(scannedIssues) :
              (scannedIssues[k].status = "WAITING_ON_SLACK"
               /\ scannedIssues'[k].status # "WAITING_ON_SLACK") =>
                  \/ response'.op = "scanAll"
                  \/ /\ response'.op \in {"rescanOne", "override"}
                     /\ response'.issueId = scannedIssues[k].id
      ]_vars

\* a modal submission has answered one of the two generated questions of an issue
\* that a send had put in WAITING_ON_SLACK, and the issue is still there
C28_AnsweredWhileWaiting ==
    /\ response.op = "slackInteract" /\ response.code = 200
    /\ Len(answers) = 2 /\ answers[1].question # answers[2].question
    /\ \E k \in 1..Len(scannedIssues) :
           /\ scannedIssues[k].id = response.issueId
           /\ scannedIssues[k].status = "WAITING_ON_SLACK"
           /\ scannedIssues[k].slackMessageSent
           /\ \E j \in 1..Len(answers) :
                  answers[j].issueId = response.issueId /\ answers[j].answer = <<"y">>

(***************************************************************************)
(* Properties of the answers of an issue, under SpecAnswers                *)
(***************************************************************************)
\* C24: once a QaAnswer row has a non-empty answer, no request changes that answer
C24_AnswerWrittenOnce ==
    [][\A k \in 1..Len(answers) :
          answers[k].answer # <<>> =>
              \A j \in 1..Len(answers') :
                  answers'[j].id = answers[k].id => answers'[j].answer = answers[k].answer
      ]_vars

(***************************************************************************)
(* Properties of concurrent generation, under SpecGenerateRace             *)
(***************************************************************************)
\* C29: whatever the interleaving of generation requests without regenerate, an
\* issue has at most one unanswered row per question text and at most 6 rows
C29_ConcurrentGenerateOnce ==
    \A issueId \in IssueIds :
        LET rows == AnswersOf(answers, issueId)
        IN  /\ Len(rows) <= QuestionLimit
            /\ \A i, j \in 1..Len(rows) :
                   (i # j /\ rows[i].answer = <<>> /\ rows[j].answer = <<>>)
                   => rows[i].question # rows[j].question

(***************************************************************************)
(* Properties of modal submissions, under SpecInteract                     *)
(***************************************************************************)
\* C30: in live mode with a signing secret, a submission whose signature does not
\* verify, or whose signature or timestamp header is missing, changes no QaAnswer
\* row and appends no audit entry
C30_UnsignedMutatesNothing ==
    [][\A signature \in Signatures \ {"valid"}, questionIds \in QuestionIdInputs :
          \A inputValue \in ModalInputs :
              (/\ settings.exists /\ ~settings.mockMode /\ settings.slackSigningSecret
               /\ SlackInteract(signature, 1, questionIds, inputValue))
              => (answers' = answers /\ auditLog' = auditLog)
      ]_vars

====
